---- MODULE Spec2Model ----
(***************************************************************************)
(* Model of the animation core of the portfolio site:                      *)
(*   - AnimationProvider (context/AnimationContext.tsx): the timeline       *)
(*     registry, the reduced-motion listener and the scroll-progress        *)
(*     tracking effect with its requestAnimationFrame coalescing.           *)
(*   - calculateScrollProgress, the pure function behind scrollProgress.    *)
(*                                                                         *)
(* Numbers that the code computes by division are kept as reduced          *)
(* fractions <<numerator, denominator>> with a positive denominator.       *)
(***************************************************************************)
EXTENDS Integers, Sequences, FiniteSets, TLC

\* ---------------------------------------------------------------- bounds
MaxIds == 2
MaxControllers == 3
MaxFrames == 3
MaxScroll == 3
MaxHeight == 3
MaxRounds == 3

Ids == 1..MaxIds
Controllers == 1..MaxControllers
Heights == 1..MaxHeight
NoFrame == 0

VARIABLES
  mounted,          \* AnimationProvider is mounted (effects set up, not cleaned up)
  mediaMatches,     \* window.matchMedia('(prefers-reduced-motion: reduce)').matches
  isReducedMotion,  \* React state read by the registry callbacks
  timelines,        \* timelinesRef.current: id -> [timeline, isVisible]
  ctl,              \* play state of every gsap timeline object
  calls,            \* methods the last step invoked on timelines: <<method, timeline>>
  lastOp,           \* the operation the last step performed, with its arguments
  scrollY,          \* window.scrollY
  documentHeight,   \* document.documentElement.scrollHeight
  viewportHeight,   \* window.innerHeight
  scrollProgress,   \* React state published through the context (a fraction)
  rafId,            \* closure variable of the scroll effect (NoFrame = null)
  pendingFrames,    \* callbacks waiting in the browser's animation-frame queue
  nextFrame,        \* next id requestAnimationFrame hands out
  lastDims,         \* the dimensions read by the last updateScrollProgress
  fnArgs,           \* arguments of the last direct call of a pure function
  fnResult          \* its result

registryVars == <<mediaMatches, isReducedMotion, timelines, ctl, calls>>
scrollVars == <<scrollY, documentHeight, viewportHeight, scrollProgress,
                rafId, pendingFrames, nextFrame, lastDims>>
pureVars == <<fnArgs, fnResult>>

VARIABLES
  pxLayers,          \* useParallax: the layers option, id -> configuration
  pxDisabled,        \* useParallax: the disabled option
  pxBaseScrollRange, \* useParallax: the baseScrollRange option (NoRange = undefined)
  pxBaseRange,       \* useParallax: the memoised baseRange
  layerStates,       \* useParallax: the layerStates React state
  pxPhase,           \* useParallax: "idle", or the dependency whose change
                     \* left the two layer effects still to run
  pxOwner,           \* the component that calls useParallax
  pxLayersRef,       \* identity of the layers array of the latest render
  pxBoundsRef,       \* ParallaxWrapper: identity of the bounds prop
  pxRounds           \* runs of the two layer effects since an input changed

parallaxVars == <<pxLayers, pxDisabled, pxBaseScrollRange, pxBaseRange,
                  layerStates, pxPhase, pxOwner, pxLayersRef, pxBoundsRef,
                  pxRounds>>

VARIABLES
  sectionIds,        \* the ordered list of section ids handed to the scroll controller
  dom,               \* document.getElementById: id -> getBoundingClientRect()
  effects,           \* what the last step did outside React state: console.warn,
                     \* element.scrollIntoView, onSubmit(...)
  formData,          \* ContactForm: formData state
  formErrors,        \* ContactForm: errors state, field -> message
  formStatus,        \* ContactForm: status state
  touched,           \* ContactForm: touched state, the set of touched fields
  hasOnSubmit,       \* ContactForm: the onSubmit prop is given
  inFlight           \* ContactForm: onSubmit promises not settled yet

sectionVars == <<sectionIds, dom, effects>>
formVars == <<formData, formErrors, formStatus, touched, hasOnSubmit, inFlight>>

VARIABLES
  navMounted,        \* Navbar is mounted
  isMobileMenuOpen,  \* Navbar: isMobileMenuOpen state
  isMobile,          \* Navbar: isMobile state
  innerWidth,        \* window.innerWidth
  bodyOverflow,      \* document.body.style.overflow
  escapeSees,        \* isMobileMenuOpen as closed over by the attached
                     \* keydown listener
  navPhase           \* "idle", or "effects" while the effects of the last
                     \* render are still to run

navVars == <<navMounted, isMobileMenuOpen, isMobile, innerWidth, bodyOverflow,
             escapeSees, navPhase>>

VARIABLES
  anim               \* per visual component: the animation its effect created
                     \* and registered (id and timeline held by the cleanup
                     \* closure), or NoAnim

animVars == <<anim>>

VARIABLES
  hookMounted,       \* the component that uses useScrollController is mounted
  currentSection,    \* AnimationContext: currentSection state
  closureSection,    \* currentSection as closed over by the effect run whose
                     \* listeners are attached ("" before the first run)
  effectRuns,        \* the section-detection effect has run at least once
  sectionRafId,      \* rafIdRef.current
  sectionFrames,     \* requested animation frames of updateCurrentSection
                     \* that have neither fired nor been cancelled
  throttleOpen,      \* performance.now() - lastThrottleTimeRef.current >= throttleMs
  hasOnSectionChange,\* the onSectionChange option is given
  eventsLeft,        \* scroll and resize events still to come
  detectedSection    \* what detectCurrentSection(sectionIds) returns for the
                     \* layout the page has now

detectVars == <<hookMounted, currentSection, closureSection, effectRuns,
                sectionRafId, sectionFrames, throttleOpen, hasOnSectionChange,
                eventsLeft, detectedSection>>
componentVars == <<navVars, animVars, detectVars>>
hookVars == <<parallaxVars, sectionVars, formVars, componentVars>>
vars == <<mounted, lastOp, registryVars, scrollVars, pureVars, hookVars>>

\* ------------------------------------------------------------- fractions
Abs(x) == IF x < 0 THEN -x ELSE x

RECURSIVE GCD(_, _)
GCD(a, b) == IF b = 0 THEN a ELSE GCD(b, a % b)

\* a / b for b > 0, as a reduced fraction
Div(a, b) ==
  LET g == GCD(Abs(a), b) IN
  IF a = 0 THEN <<0, 1>> ELSE <<a \div g, b \div g>>

Zero == <<0, 1>>
One == <<1, 1>>
FLeq(x, y) == x[1] * y[2] <= y[1] * x[2]
FMin(x, y) == IF FLeq(x, y) THEN x ELSE y
FMax(x, y) == IF FLeq(x, y) THEN y ELSE x

\* ------------------------------------------------ calculateScrollProgress
calculateScrollProgress_noClamp(y, dH, vH) ==
  IF dH <= vH THEN Zero
  ELSE IF y < 0 THEN Zero
  ELSE LET maxScroll == dH - vH IN
       IF maxScroll <= 0 THEN Zero
       ELSE Div(y, maxScroll)

calculateScrollProgress_noNegativeGuard(y, dH, vH) ==
  IF dH <= vH THEN Zero
  ELSE LET maxScroll == dH - vH IN
       IF maxScroll <= 0 THEN Zero
       ELSE FMin(One, Div(y, maxScroll))

calculateScrollProgress(y, dH, vH) ==
  IF dH <= vH THEN Zero
  ELSE IF y < 0 THEN Zero
  ELSE LET maxScroll == dH - vH IN
       IF maxScroll <= 0 THEN Zero
       ELSE LET progress == Div(y, maxScroll) IN
            FMax(Zero, FMin(One, progress))

\* ------------------------------------------------------------ operations
Op(name, id, c, flag) == [op |-> name, id |-> id, timeline |-> c, flag |-> flag]

\* gsap timeline methods as the registry uses them: pause(), resume(), kill()
Effect(state, c, cs) ==
  IF <<"kill", c>> \in cs THEN "killed"
  ELSE IF state = "killed" THEN "killed"
  ELSE IF <<"pause", c>> \in cs THEN "paused"
  ELSE IF <<"resume", c>> \in cs THEN "playing"
  ELSE state

\* timeline.paused()
paused(c) == ctl[c] = "paused"

FreshControllers == {c \in Controllers : ctl[c] = "fresh"}
Registered == DOMAIN timelines

\* ----------------------------------------------------- registerAnimation
\* The caller passes a timeline it has just created (gsap.timeline(...)),
\* either playing or created with paused: true.
registerAnimation_neverPauses(id, c, initial) ==
  /\ mounted
  /\ c \in FreshControllers
  /\ timelines' = [i \in Registered \cup {id} |->
                     IF i = id THEN [timeline |-> c, isVisible |-> TRUE]
                     ELSE timelines[i]]
  /\ calls' = {}
  /\ ctl' = [ctl EXCEPT ![c] = initial]
  /\ lastOp' = Op("registerAnimation", id, c, initial = "paused")
  /\ UNCHANGED <<mounted, mediaMatches, isReducedMotion, scrollVars, pureVars, hookVars>>

registerAnimation(id, c, initial) ==
  /\ mounted
  /\ c \in FreshControllers
  /\ timelines' = [i \in Registered \cup {id} |->
                     IF i = id THEN [timeline |-> c, isVisible |-> TRUE]
                     ELSE timelines[i]]
  /\ calls' = IF isReducedMotion THEN {<<"pause", c>>} ELSE {}
  /\ ctl' = [ctl EXCEPT ![c] = Effect(initial, c, calls')]
  /\ lastOp' = Op("registerAnimation", id, c, initial = "paused")
  /\ UNCHANGED <<mounted, mediaMatches, isReducedMotion, scrollVars, pureVars, hookVars>>

\* --------------------------------------------------- unregisterAnimation
unregisterAnimation_keepsEntry(id) ==
  /\ mounted
  /\ calls' = IF id \in Registered THEN {<<"kill", timelines[id].timeline>>} ELSE {}
  /\ timelines' = timelines
  /\ ctl' = [c \in Controllers |-> Effect(ctl[c], c, calls')]
  /\ lastOp' = Op("unregisterAnimation", id, 0, FALSE)
  /\ UNCHANGED <<mounted, mediaMatches, isReducedMotion, scrollVars, pureVars, hookVars>>

unregisterAnimation(id) ==
  /\ mounted
  /\ calls' = IF id \in Registered THEN {<<"kill", timelines[id].timeline>>} ELSE {}
  /\ timelines' = [i \in Registered \ {id} |-> timelines[i]]
  /\ ctl' = [c \in Controllers |-> Effect(ctl[c], c, calls')]
  /\ lastOp' = Op("unregisterAnimation", id, 0, FALSE)
  /\ UNCHANGED <<mounted, mediaMatches, isReducedMotion, scrollVars, pureVars, hookVars>>

\* ------------------------------------------------ setAnimationVisibility
setAnimationVisibility_ignoresMotion(id, isVisible) ==
  /\ mounted
  /\ timelines' = IF id \in Registered
                  THEN [timelines EXCEPT ![id].isVisible = isVisible]
                  ELSE timelines
  /\ calls' = IF id \notin Registered THEN {}
              ELSE LET c == timelines[id].timeline IN
                   IF ~isVisible /\ ~paused(c) THEN {<<"pause", c>>}
                   ELSE IF isVisible /\ paused(c) THEN {<<"resume", c>>}
                   ELSE {}
  /\ ctl' = [c \in Controllers |-> Effect(ctl[c], c, calls')]
  /\ lastOp' = Op("setAnimationVisibility", id, 0, isVisible)
  /\ UNCHANGED <<mounted, mediaMatches, isReducedMotion, scrollVars, pureVars, hookVars>>

setAnimationVisibility_forgetsFlag(id, isVisible) ==
  /\ mounted
  /\ timelines' = timelines
  /\ calls' = IF id \notin Registered THEN {}
              ELSE LET c == timelines[id].timeline IN
                   IF ~isVisible /\ ~paused(c) THEN {<<"pause", c>>}
                   ELSE IF isVisible /\ paused(c) /\ ~isReducedMotion
                        THEN {<<"resume", c>>}
                   ELSE {}
  /\ ctl' = [c \in Controllers |-> Effect(ctl[c], c, calls')]
  /\ lastOp' = Op("setAnimationVisibility", id, 0, isVisible)
  /\ UNCHANGED <<mounted, mediaMatches, isReducedMotion, scrollVars, pureVars, hookVars>>

\* setAnimationVisibility disposing a timeline that scrolls out of view
setAnimationVisibility_killsHidden(id, isVisible) ==
  /\ mounted
  /\ timelines' = IF id \in Registered
                  THEN [timelines EXCEPT ![id].isVisible = isVisible]
                  ELSE timelines
  /\ calls' = IF id \notin Registered THEN {}
              ELSE LET c == timelines[id].timeline IN
                   IF ~isVisible /\ ~paused(c) THEN {<<"kill", c>>}
                   ELSE IF isVisible /\ paused(c) /\ ~isReducedMotion
                        THEN {<<"resume", c>>}
                   ELSE {}
  /\ ctl' = [c \in Controllers |-> Effect(ctl[c], c, calls')]
  /\ lastOp' = Op("setAnimationVisibility", id, 0, isVisible)
  /\ UNCHANGED <<mounted, mediaMatches, isReducedMotion, scrollVars, pureVars, hookVars>>

setAnimationVisibility(id, isVisible) ==
  /\ mounted
  /\ timelines' = IF id \in Registered
                  THEN [timelines EXCEPT ![id].isVisible = isVisible]
                  ELSE timelines
  /\ calls' = IF id \notin Registered THEN {}
              ELSE LET c == timelines[id].timeline IN
                   IF ~isVisible /\ ~paused(c) THEN {<<"pause", c>>}
                   ELSE IF isVisible /\ paused(c) /\ ~isReducedMotion
                        THEN {<<"resume", c>>}
                   ELSE {}
  /\ ctl' = [c \in Controllers |-> Effect(ctl[c], c, calls')]
  /\ lastOp' = Op("setAnimationVisibility", id, 0, isVisible)
  /\ UNCHANGED <<mounted, mediaMatches, isReducedMotion, scrollVars, pureVars, hookVars>>

\* ---------------------------------- reduced-motion listener: handleChange
\* The platform flips the preference and dispatches the change event; the
\* handler stores event.matches in the React state and sweeps the registry.
\* React commits the state update before the next event is dispatched, so
\* every later call of a registry callback reads the committed value.
handleChange_resumesAll(matches) ==
  /\ mounted
  /\ matches # mediaMatches
  /\ mediaMatches' = matches
  /\ isReducedMotion' = matches
  /\ calls' = {<<IF matches THEN "pause" ELSE "resume", timelines[i].timeline>> :
                 i \in Registered}
  /\ ctl' = [c \in Controllers |-> Effect(ctl[c], c, calls')]
  /\ lastOp' = Op("handleChange", 0, 0, matches)
  /\ UNCHANGED <<mounted, timelines, scrollVars, pureVars, hookVars>>

handleChange(matches) ==
  /\ mounted
  /\ matches # mediaMatches
  /\ mediaMatches' = matches
  /\ isReducedMotion' = matches
  /\ calls' = IF matches
              THEN {<<"pause", timelines[i].timeline>> : i \in Registered}
              ELSE {<<"resume", timelines[i].timeline>> :
                      i \in {j \in Registered : timelines[j].isVisible}}
  /\ ctl' = [c \in Controllers |-> Effect(ctl[c], c, calls')]
  /\ lastOp' = Op("handleChange", 0, 0, matches)
  /\ UNCHANGED <<mounted, timelines, scrollVars, pureVars, hookVars>>

\* ------------------------------------------------ scroll progress effect
Dims(y, dH, vH) == [scrollY |-> y, documentHeight |-> dH, viewportHeight |-> vH]

\* updateScrollProgress reads the window, publishes the progress and clears
\* rafId.  setScrollProgress on an unmounted provider publishes nothing.
updateScrollProgress(y, dH, vH) ==
  /\ scrollProgress' = IF mounted THEN calculateScrollProgress(y, dH, vH)
                       ELSE scrollProgress
  /\ rafId' = NoFrame
  /\ lastDims' = Dims(y, dH, vH)

handleScroll_dropsRequest ==
  UNCHANGED <<rafId, pendingFrames, nextFrame>>

handleScroll ==
  IF rafId = NoFrame
  THEN /\ rafId' = nextFrame
       /\ pendingFrames' = pendingFrames \cup {nextFrame}
       /\ nextFrame' = nextFrame + 1
  ELSE UNCHANGED <<rafId, pendingFrames, nextFrame>>

\* window 'scroll' event -> handleScroll
ScrollEvent(y) ==
  /\ mounted
  /\ rafId # NoFrame \/ nextFrame <= MaxFrames
  /\ scrollY' = y
  /\ handleScroll
  /\ lastOp' = Op("handleScroll", 0, 0, rafId = NoFrame)
  /\ UNCHANGED <<mounted, registryVars, documentHeight, viewportHeight,
                 scrollProgress, lastDims, pureVars, hookVars>>

\* window 'resize' event -> updateScrollProgress, called directly
ResizeEvent(dH, vH) ==
  /\ mounted
  /\ documentHeight' = dH
  /\ viewportHeight' = vH
  /\ updateScrollProgress(scrollY, dH, vH)
  /\ lastOp' = Op("resize", 0, 0, TRUE)
  /\ UNCHANGED <<mounted, registryVars, scrollY, pendingFrames, nextFrame, pureVars, hookVars>>

\* the browser runs the oldest pending animation-frame callback
FrameCallback ==
  /\ pendingFrames # {}
  /\ LET f == CHOOSE g \in pendingFrames : \A h \in pendingFrames : g <= h IN
     /\ pendingFrames' = pendingFrames \ {f}
     /\ lastOp' = Op("frame", f, 0, mounted)
  /\ updateScrollProgress(scrollY, documentHeight, viewportHeight)
  /\ UNCHANGED <<mounted, registryVars, scrollY, documentHeight, viewportHeight,
                 nextFrame, pureVars, hookVars>>

\* ----------------------------------------------------- provider teardown
\* Effect cleanups in declaration order: the media-query listener is removed,
\* the scroll listeners are removed and the frame named by rafId is
\* cancelled, every registered timeline is killed and the registry cleared.
Unmount_clearsWithoutKill ==
  /\ mounted
  /\ mounted' = FALSE
  /\ pendingFrames' = IF rafId # NoFrame THEN pendingFrames \ {rafId}
                      ELSE pendingFrames
  /\ calls' = {}
  /\ ctl' = ctl
  /\ timelines' = <<>>
  /\ lastOp' = Op("unmount", 0, 0, FALSE)
  /\ UNCHANGED <<mediaMatches, isReducedMotion, scrollY, documentHeight,
                 viewportHeight, scrollProgress, rafId, nextFrame, lastDims,
                 pureVars, hookVars>>

Unmount ==
  /\ mounted
  /\ mounted' = FALSE
  /\ pendingFrames' = IF rafId # NoFrame THEN pendingFrames \ {rafId}
                      ELSE pendingFrames
  /\ calls' = {<<"kill", timelines[i].timeline>> : i \in Registered}
  /\ ctl' = [c \in Controllers |-> Effect(ctl[c], c, calls')]
  /\ timelines' = <<>>
  /\ lastOp' = Op("unmount", 0, 0, FALSE)
  /\ UNCHANGED <<mediaMatches, isReducedMotion, scrollY, documentHeight,
                 viewportHeight, scrollProgress, rafId, nextFrame, lastDims,
                 pureVars, hookVars>>

\* ------------------------------------------- direct calls of pure functions
PureHeights == 0..(MaxHeight + 1)

CallCalculateScrollProgress(y, dH, vH) ==
  /\ fnArgs' = <<y, dH, vH>>
  /\ fnResult' = calculateScrollProgress(y, dH, vH)
  /\ lastOp' = Op("calculateScrollProgress", 0, 0, TRUE)
  /\ UNCHANGED <<mounted, registryVars, scrollVars, hookVars>>

\* ------------------------------------------------- arithmetic on fractions
\* n / d for d # 0, as a reduced fraction with a positive denominator
Frac(n, d) == IF d < 0 THEN Div(-n, -d) ELSE Div(n, d)
FInt(k) == <<k, 1>>
FSub(x, y) == Frac(x[1] * y[2] - y[1] * x[2], x[2] * y[2])
FMul(x, y) == Frac(x[1] * y[1], x[2] * y[2])
FQuot(x, y) == Frac(x[1] * y[2], x[2] * y[1])
FLess(x, y) == x[1] * y[2] < y[1] * x[2]

\* ------------------------------------------------ calculateParallaxPosition
\* bounds is [defined |-> FALSE, ...] for an omitted argument
NoBounds == [defined |-> FALSE, start |-> Zero, end |-> One]
Bounds(start, end) == [defined |-> TRUE, start |-> start, end |-> end]

calculateParallaxPosition_ignoresBounds(p, speedMultiplier, baseRange, bounds) ==
  FMul(FMul(p, FInt(baseRange)), speedMultiplier)

calculateParallaxPosition(p, speedMultiplier, baseRange, bounds) ==
  LET effectiveProgress ==
        IF bounds.defined
        THEN IF FLess(p, bounds.start) THEN Zero
             ELSE IF FLess(bounds.end, p) THEN One
             ELSE FQuot(FSub(p, bounds.start), FSub(bounds.end, bounds.start))
        ELSE p
  IN FMul(FMul(effectiveProgress, FInt(baseRange)), speedMultiplier)

\* --------------------------------------------------- calculatePositionDelta
calculatePositionDelta_ignoresBaseRange(scrollDelta, speedMultiplier, baseRange) ==
  FMul(scrollDelta, speedMultiplier)

calculatePositionDelta(scrollDelta, speedMultiplier, baseRange) ==
  FMul(FMul(scrollDelta, FInt(baseRange)), speedMultiplier)

\* ------------------------------------------------------------- useParallax
NoRange == 0
LayerIds == {"layer1", "layer2"}
\* every layers array with unique ids over LayerIds
LayerArrays ==
  UNION {[ids ->
            { [speedMultiplier |-> <<1, 2>>, direction |-> "vertical",
               bounds |-> NoBounds],
              [speedMultiplier |-> <<2, 1>>, direction |-> "horizontal",
               bounds |-> NoBounds],
              [speedMultiplier |-> <<1, 1>>, direction |-> "vertical",
               bounds |-> Bounds(<<1, 4>>, <<3, 4>>)] }]
         : ids \in SUBSET LayerIds}
HookProgresses == {Zero, <<1, 2>>, One}
EmptyStyle == [transform |-> "none", px |-> Zero]

\* const isDisabled = disabled || isReducedMotion
isDisabled == pxDisabled \/ isReducedMotion

\* the map both the lazy state initialiser and the second effect build
LayerStatesFromLayers(layers, p, baseRange, disabledNow) ==
  [id \in DOMAIN layers |->
     [position |-> IF disabledNow THEN Zero
                   ELSE calculateParallaxPosition(p, layers[id].speedMultiplier,
                                                  baseRange, layers[id].bounds),
      speedMultiplier |-> layers[id].speedMultiplier,
      direction |-> layers[id].direction]]

\* first effect: positions follow scrollProgress, or are reset when disabled
positionEffect(prev) ==
  IF isDisabled
  THEN [id \in DOMAIN prev |-> [prev[id] EXCEPT !.position = Zero]]
  ELSE LayerStatesFromLayers(pxLayers, scrollProgress, pxBaseRange, FALSE)

\* second effect: the states are rebuilt from the layer configurations
configEffect_keepsPrevious(prev) == prev

configEffect(prev) ==
  LayerStatesFromLayers(pxLayers, scrollProgress, pxBaseRange, isDisabled)

\* useMemo(() => baseScrollRange ?? window.innerHeight, [baseScrollRange])
MemoBaseRange(option) == IF option # NoRange THEN option ELSE viewportHeight

getLayerPosition(layerId) ==
  IF layerId \in DOMAIN layerStates THEN layerStates[layerId].position ELSE Zero

getLayerStyle(layerId) ==
  IF layerId \notin DOMAIN layerStates \/ isDisabled THEN EmptyStyle
  ELSE [transform |-> IF layerStates[layerId].direction = "vertical"
                      THEN "translateY" ELSE "translateX",
        px |-> layerStates[layerId].position]

\* pxOwner is "renderHook", a caller that passes the layers array of its
\* props, or "ParallaxWrapper", whose single layer has this id
WrapperLayerId == "layer1"
\* object identities, told apart between two consecutive renders
NewRef(ref) == 1 - ref

\* ParallaxWrapper: useMemo(() => [{...}], [layerId, speed, direction, bounds])
WrapperLayersRef_notMemoised(boundsChanged, ref) == NewRef(ref)

WrapperLayersRef(boundsChanged, ref) ==
  IF boundsChanged THEN NewRef(ref) ELSE ref

\* the layers array of a render that only a state update of the hook caused:
\* the props of the owner are the ones of its previous render
RenderedLayersRef ==
  IF pxOwner = "ParallaxWrapper" THEN WrapperLayersRef(FALSE, pxLayersRef)
  ELSE pxLayersRef

\* A re-render with a changed dependency commits with the old layerStates and
\* leaves both effects to run; React runs them before it handles anything else.
ParallaxRerender(dep, changed) ==
  /\ pxPhase = "idle"
  /\ pxPhase' = IF changed THEN dep ELSE "idle"
  /\ pxRounds' = 0
  /\ lastOp' = Op("useParallax", dep, 0, changed)
  /\ UNCHANGED <<mounted, layerStates, pxOwner, timelines, ctl, calls, scrollY,
                 documentHeight, viewportHeight, rafId, pendingFrames,
                 nextFrame, lastDims, pureVars, sectionVars, formVars,
                 componentVars>>

\* the context publishes a new scrollProgress
ParallaxScrollProgress(p) ==
  /\ scrollProgress' = p
  /\ ParallaxRerender("scrollProgress", p # scrollProgress)
  /\ UNCHANGED <<mediaMatches, isReducedMotion, pxLayers, pxDisabled,
                 pxBaseScrollRange, pxBaseRange, pxLayersRef, pxBoundsRef>>

\* the context publishes a new isReducedMotion
ParallaxReducedMotion(matches) ==
  /\ matches # mediaMatches
  /\ mediaMatches' = matches
  /\ isReducedMotion' = matches
  /\ ParallaxRerender("isDisabled", (pxDisabled \/ matches) # isDisabled)
  /\ UNCHANGED <<scrollProgress, pxLayers, pxDisabled, pxBaseScrollRange,
                 pxBaseRange, pxLayersRef, pxBoundsRef>>

\* the owner re-renders with another disabled option
ParallaxSetDisabled(disabled) ==
  /\ pxOwner = "renderHook"
  /\ disabled # pxDisabled
  /\ pxDisabled' = disabled
  /\ ParallaxRerender("isDisabled", (disabled \/ isReducedMotion) # isDisabled)
  /\ UNCHANGED <<mediaMatches, isReducedMotion, scrollProgress, pxLayers,
                 pxBaseScrollRange, pxBaseRange, pxLayersRef, pxBoundsRef>>

\* the owner re-renders with a new layers array
ParallaxSetLayers(layers) ==
  /\ pxOwner = "renderHook"
  /\ pxLayers' = layers
  /\ pxLayersRef' = NewRef(pxLayersRef)
  /\ ParallaxRerender("layers", TRUE)
  /\ UNCHANGED <<mediaMatches, isReducedMotion, scrollProgress, pxDisabled,
                 pxBaseScrollRange, pxBaseRange, pxBoundsRef>>

\* the parent of ParallaxWrapper re-renders it with the bounds `bounds`, as a
\* new object or as the object it passed before
ParallaxWrapperRender(bounds, fresh) ==
  /\ pxOwner = "ParallaxWrapper"
  /\ ~fresh => bounds = pxLayers[WrapperLayerId].bounds
  /\ LET ref == WrapperLayersRef(fresh, pxLayersRef) IN
       /\ pxLayersRef' = ref
       /\ pxBoundsRef' = IF fresh THEN NewRef(pxBoundsRef) ELSE pxBoundsRef
       /\ pxLayers' = IF ref # pxLayersRef
                      THEN [pxLayers EXCEPT ![WrapperLayerId].bounds = bounds]
                      ELSE pxLayers
       /\ ParallaxRerender("layers", ref # pxLayersRef)
  /\ UNCHANGED <<mediaMatches, isReducedMotion, scrollProgress, pxDisabled,
                 pxBaseScrollRange, pxBaseRange>>

\* the window is resized; useParallax has no listener for it
ParallaxResize(height) ==
  /\ height # viewportHeight
  /\ viewportHeight' = height
  /\ lastOp' = Op("resize", height, 0, TRUE)
  /\ UNCHANGED <<mounted, registryVars, scrollY, documentHeight,
                 scrollProgress, rafId, pendingFrames, nextFrame, lastDims,
                 pureVars, hookVars>>

\* the owner re-renders with another baseScrollRange option
ParallaxSetBaseScrollRange(option) ==
  /\ option # pxBaseScrollRange
  /\ pxBaseScrollRange' = option
  /\ pxBaseRange' = MemoBaseRange(option)
  /\ ParallaxRerender("baseRange", MemoBaseRange(option) # pxBaseRange)
  /\ UNCHANGED <<mediaMatches, isReducedMotion, scrollProgress, pxLayers,
                 pxDisabled, pxLayersRef, pxBoundsRef>>

\* Both effects run in declaration order and their updaters are applied in
\* turn; the new Map makes the owner render again, and the effects are left to
\* run once more when that render passes another layers array.
ParallaxEffects ==
  /\ pxPhase # "idle"
  /\ pxRounds < MaxRounds
  /\ layerStates' = configEffect(positionEffect(layerStates))
  /\ pxRounds' = pxRounds + 1
  /\ pxLayersRef' = RenderedLayersRef
  /\ pxPhase' = IF RenderedLayersRef # pxLayersRef THEN "layers" ELSE "idle"
  /\ lastOp' = Op("useParallaxEffects", pxPhase, 0, isDisabled)
  /\ UNCHANGED <<mounted, registryVars, scrollVars, pureVars, pxLayers,
                 pxDisabled, pxBaseScrollRange, pxBaseRange, pxOwner,
                 pxBoundsRef, sectionVars, formVars, componentVars>>

ParallaxAtRest ==
  /\ pxLayers = <<>>
  /\ pxDisabled = FALSE
  /\ pxBaseScrollRange = NoRange
  /\ pxBaseRange = MemoBaseRange(NoRange)
  /\ layerStates = <<>>
  /\ pxPhase = "idle"
  /\ pxOwner = "renderHook"
  /\ pxLayersRef = 0
  /\ pxBoundsRef = 0
  /\ pxRounds = 0

\* ---------------------------------------------------- detectCurrentSection
FAbs(x) == <<Abs(x[1]), x[2]>>
Max2(a, b) == IF a >= b THEN a ELSE b
Min2(a, b) == IF a <= b THEN a ELSE b
Half == <<1, 2>>

SectionNames == {"hero", "education", "experience"}
Rect(top, bottom) == [top |-> top, bottom |-> bottom]

\* the score of one rendered section (lines 64-73 of the loop body)
SectionScore(rect) ==
  LET viewportCenter == FMul(FInt(viewportHeight), Half)
      visibleTop == Max2(0, rect.top)
      visibleBottom == Min2(viewportHeight, rect.bottom)
      visibleHeight == Max2(0, visibleBottom - visibleTop)
      centerDistance ==
        FAbs(FSub(FMul(FInt(rect.top + rect.bottom), Half), viewportCenter))
  IN FSub(FInt(visibleHeight), FMul(centerDistance, Half))

\* the for loop from index i on, document being what getElementById finds;
\* scored = FALSE stands for bestScore = -Infinity
RECURSIVE DetectLoop(_, _, _, _, _, _)
DetectLoop(document, ids, i, bestSection, bestScore, scored) ==
  IF i > Len(ids) THEN bestSection
  ELSE IF ids[i] \notin DOMAIN document
       THEN DetectLoop(document, ids, i + 1, bestSection, bestScore, scored)
  ELSE LET score == SectionScore(document[ids[i]]) IN
       IF ~scored \/ FLess(bestScore, score)
       THEN DetectLoop(document, ids, i + 1, ids[i], score, TRUE)
       ELSE DetectLoop(document, ids, i + 1, bestSection, bestScore, scored)

\* the loop with score >= bestScore
RECURSIVE DetectLoop_lastWins(_, _, _, _, _, _)
DetectLoop_lastWins(document, ids, i, bestSection, bestScore, scored) ==
  IF i > Len(ids) THEN bestSection
  ELSE IF ids[i] \notin DOMAIN document
       THEN DetectLoop_lastWins(document, ids, i + 1, bestSection, bestScore, scored)
  ELSE LET score == SectionScore(document[ids[i]]) IN
       IF ~scored \/ ~FLess(score, bestScore)
       THEN DetectLoop_lastWins(document, ids, i + 1, ids[i], score, TRUE)
       ELSE DetectLoop_lastWins(document, ids, i + 1, bestSection, bestScore, scored)

\* the loop with a missing element scored 0 instead of skipped
RECURSIVE DetectLoop_scoresMissing(_, _, _, _, _, _)
DetectLoop_scoresMissing(document, ids, i, bestSection, bestScore, scored) ==
  IF i > Len(ids) THEN bestSection
  ELSE LET score == IF ids[i] \in DOMAIN document THEN SectionScore(document[ids[i]])
                    ELSE Zero IN
       IF ~scored \/ FLess(bestScore, score)
       THEN DetectLoop_scoresMissing(document, ids, i + 1, ids[i], score, TRUE)
       ELSE DetectLoop_scoresMissing(document, ids, i + 1, bestSection, bestScore, scored)

\* sectionIds[0] || ''
FirstOrEmpty(ids) == IF Len(ids) > 0 THEN ids[1] ELSE ""

detectCurrentSection_lastWinsTies(ids) ==
  DetectLoop_lastWins(dom, ids, 1, FirstOrEmpty(ids), Zero, FALSE)

detectCurrentSection_scoresMissingAsZero(ids) ==
  DetectLoop_scoresMissing(dom, ids, 1, FirstOrEmpty(ids), Zero, FALSE)

detectCurrentSection_noEmptyFallback(ids) ==
  DetectLoop(dom, ids, 1, IF Len(ids) > 0 THEN ids[1] ELSE "undefined", Zero, FALSE)

detectCurrentSection(ids) ==
  DetectLoop(dom, ids, 1, FirstOrEmpty(ids), Zero, FALSE)

CallDetectCurrentSection ==
  /\ fnResult' = detectCurrentSection(sectionIds)
  /\ effects' = <<>>
  /\ lastOp' = Op("detectCurrentSection", 0, 0, TRUE)
  /\ UNCHANGED <<mounted, registryVars, scrollVars, fnArgs, parallaxVars,
                 sectionIds, dom, formVars, componentVars>>

\* --------------------------------------------------------- scrollToSection
Warned(sectionId) ==
  [kind |-> "console.warn", target |-> sectionId, behavior |-> "", block |-> ""]
ScrolledIntoView(sectionId) ==
  [kind |-> "scrollIntoView", target |-> sectionId, behavior |-> "smooth",
   block |-> "start"]

scrollToSection_silent(sectionId) ==
  /\ effects' = IF sectionId \notin DOMAIN dom THEN <<>>
                ELSE <<ScrolledIntoView(sectionId)>>
  /\ lastOp' = Op("scrollToSection", sectionId, 0, sectionId \in DOMAIN dom)
  /\ UNCHANGED <<mounted, registryVars, scrollVars, pureVars, parallaxVars,
                 sectionIds, dom, formVars, componentVars>>

scrollToSection(sectionId) ==
  /\ effects' = IF sectionId \notin DOMAIN dom THEN <<Warned(sectionId)>>
                ELSE <<ScrolledIntoView(sectionId)>>
  /\ lastOp' = Op("scrollToSection", sectionId, 0, sectionId \in DOMAIN dom)
  /\ UNCHANGED <<mounted, registryVars, scrollVars, pureVars, parallaxVars,
                 sectionIds, dom, formVars, componentVars>>

SectionsAtRest ==
  /\ sectionIds = <<>>
  /\ dom = <<>>
  /\ effects = <<>>

\* ------------------------------------------------------------- ContactForm
\* A string is the sequence of its characters.
Fields == {"name", "email", "message"}
EmptyForm == [name |-> <<>>, email |-> <<>>, message |-> <<>>]
NoErrors == [f \in {} |-> ""]

RECURSIVE trimStart(_)
trimStart(s) == IF s # <<>> /\ Head(s) = " " THEN trimStart(Tail(s)) ELSE s
RECURSIVE trimEnd(_)
trimEnd(s) ==
  IF s # <<>> /\ s[Len(s)] = " " THEN trimEnd(SubSeq(s, 1, Len(s) - 1)) ELSE s
trim(s) == trimEnd(trimStart(s))

\* [^\s@]+ matches s[a..b]
PlainRun(s, a, b) == a <= b /\ \A k \in a..b : s[k] \notin {" ", "@"}

\* /^[^\s@]+@[^\s@]+\.[^\s@]+$/.test(email)
isValidEmail(email) ==
  \E i \in 1..Len(email), j \in 1..Len(email) :
     /\ PlainRun(email, 1, i - 1)
     /\ email[i] = "@"
     /\ PlainRun(email, i + 1, j - 1)
     /\ email[j] = "."
     /\ PlainRun(email, j + 1, Len(email))

validateForm(data) ==
  LET failing == {f \in Fields :
                    \/ trim(data[f]) = <<>>
                    \/ f = "email" /\ ~isValidEmail(data.email)}
  IN [f \in failing |->
        IF f = "name" THEN "Name is required"
        ELSE IF f = "message" THEN "Message is required"
        ELSE IF trim(data.email) = <<>> THEN "Email is required"
        ELSE "Please enter a valid email address"]

hasErrors(errors) == Cardinality(DOMAIN errors) > 0

SubmitCall(data) == [kind |-> "onSubmit", data |-> data]

FormValues(field) ==
  IF field = "name" THEN {<<>>, <<" ">>, <<"a">>}
  ELSE IF field = "email"
  THEN {<<>>, <<" ">>, <<"a", "@", "a">>, <<"a", "@", ".", "a">>,
        <<"a", "@", "a", ".", "a">>, <<" ", "a", "@", "a", ".", "a">>}
  ELSE {<<>>, <<" ">>, <<"a", " ", "a">>}

FormUntouchedVars ==
  <<mounted, registryVars, scrollVars, pureVars, parallaxVars, sectionIds, dom,
    componentVars>>

\* The inputs are disabled while status is 'submitting'.
ContactForm_handleChange(name, value) ==
  /\ formStatus # "submitting"
  /\ formData' = [formData EXCEPT ![name] = value]
  /\ formErrors' = IF name \in DOMAIN formErrors
                   THEN [f \in DOMAIN formErrors \ {name} |-> formErrors[f]]
                   ELSE formErrors
  /\ effects' = <<>>
  /\ lastOp' = Op("ContactForm.handleChange", name, 0, TRUE)
  /\ UNCHANGED <<FormUntouchedVars, formStatus, touched, hasOnSubmit, inFlight>>

handleBlur(name) ==
  /\ formStatus # "submitting"
  /\ touched' = touched \cup {name}
  /\ LET fieldErrors == validateForm(formData) IN
       formErrors' = IF name \in DOMAIN fieldErrors
                     THEN [f \in DOMAIN formErrors \cup {name} |->
                             IF f = name THEN fieldErrors[f] ELSE formErrors[f]]
                     ELSE formErrors
  /\ effects' = <<>>
  /\ lastOp' = Op("handleBlur", name, 0, TRUE)
  /\ UNCHANGED <<FormUntouchedVars, formData, formStatus, hasOnSubmit, inFlight>>

\* handleSubmit with the hasErrors early return removed
handleSubmit_skipsValidation ==
  /\ formStatus # "submitting"
  /\ formErrors' = validateForm(formData)
  /\ IF hasOnSubmit
     THEN /\ formStatus' = "submitting"
          /\ effects' = <<SubmitCall(formData)>>
          /\ inFlight' = inFlight + 1
          /\ touched' = Fields
          /\ UNCHANGED formData
     ELSE /\ formStatus' = "success"
          /\ formData' = EmptyForm
          /\ touched' = {}
          /\ effects' = <<>>
          /\ UNCHANGED inFlight
  /\ lastOp' = Op("handleSubmit", 0, 0, TRUE)
  /\ UNCHANGED <<FormUntouchedVars, hasOnSubmit>>

\* handleSubmit reachable although the submit button is disabled
handleSubmit_whileSubmitting ==
  /\ LET validationErrors == validateForm(formData) IN
       /\ formErrors' = validationErrors
       /\ IF hasErrors(validationErrors)
          THEN /\ touched' = Fields
               /\ effects' = <<>>
               /\ UNCHANGED <<formData, formStatus, inFlight>>
          ELSE IF hasOnSubmit
          THEN /\ formStatus' = "submitting"
               /\ effects' = <<SubmitCall(formData)>>
               /\ inFlight' = inFlight + 1
               /\ touched' = Fields
               /\ UNCHANGED formData
          ELSE /\ formStatus' = "success"
               /\ formData' = EmptyForm
               /\ touched' = {}
               /\ effects' = <<>>
               /\ UNCHANGED inFlight
  /\ lastOp' = Op("handleSubmit", 0, 0, TRUE)
  /\ UNCHANGED <<FormUntouchedVars, hasOnSubmit>>

\* handleSubmit up to its await: the submit button is disabled while status
\* is 'submitting'. Without an onSubmit prop nothing is awaited and the
\* handler runs to its end in the same step.
handleSubmit ==
  /\ formStatus # "submitting"
  /\ LET validationErrors == validateForm(formData) IN
       /\ formErrors' = validationErrors
       /\ IF hasErrors(validationErrors)
          THEN /\ touched' = Fields
               /\ effects' = <<>>
               /\ UNCHANGED <<formData, formStatus, inFlight>>
          ELSE IF hasOnSubmit
          THEN /\ formStatus' = "submitting"
               /\ effects' = <<SubmitCall(formData)>>
               /\ inFlight' = inFlight + 1
               /\ touched' = Fields
               /\ UNCHANGED formData
          ELSE /\ formStatus' = "success"
               /\ formData' = EmptyForm
               /\ touched' = {}
               /\ effects' = <<>>
               /\ UNCHANGED inFlight
  /\ lastOp' = Op("handleSubmit", 0, 0, TRUE)
  /\ UNCHANGED <<FormUntouchedVars, hasOnSubmit>>

\* the rest of the try block without the reset of the form
onSubmitResolves_keepsData ==
  /\ inFlight > 0
  /\ inFlight' = inFlight - 1
  /\ formStatus' = "success"
  /\ touched' = {}
  /\ effects' = <<>>
  /\ lastOp' = Op("onSubmit resolves", 0, 0, TRUE)
  /\ UNCHANGED <<FormUntouchedVars, formData, formErrors, hasOnSubmit>>

\* the promise of onSubmit resolves: the rest of the try block
onSubmitResolves ==
  /\ inFlight > 0
  /\ inFlight' = inFlight - 1
  /\ formStatus' = "success"
  /\ formData' = EmptyForm
  /\ touched' = {}
  /\ effects' = <<>>
  /\ lastOp' = Op("onSubmit resolves", 0, 0, TRUE)
  /\ UNCHANGED <<FormUntouchedVars, formErrors, hasOnSubmit>>

\* the promise of onSubmit rejects: the catch block
onSubmitRejects ==
  /\ inFlight > 0
  /\ inFlight' = inFlight - 1
  /\ formStatus' = "error"
  /\ effects' = <<>>
  /\ lastOp' = Op("onSubmit rejects", 0, 0, FALSE)
  /\ UNCHANGED <<FormUntouchedVars, formData, formErrors, touched, hasOnSubmit>>

FormAtRest ==
  /\ formData = EmptyForm
  /\ formErrors = NoErrors
  /\ formStatus = "idle"
  /\ touched = {}
  /\ hasOnSubmit = FALSE
  /\ inFlight = 0

\* ------------------------------------------------------------------ Navbar
\* Events are taken once the effects of the last render have run: React
\* flushes pending passive effects before it handles the next event.
MobileBreakpoint == 768
InnerWidths == {375, 1024}
NavSections == <<"hero", "education", "experience">>

\* what useScrollController's scrollToSection does for Navbar
ScrollCall(sectionId) ==
  IF sectionId \notin DOMAIN dom THEN <<Warned(sectionId)>>
  ELSE <<ScrolledIntoView(sectionId)>>

\* setIsMobileMenuOpen(open): a re-render, and the effects that depend on
\* isMobileMenuOpen, only when the value changes
SetMobileMenuOpen(open) ==
  /\ isMobileMenuOpen' = open
  /\ navPhase' = IF open # isMobileMenuOpen THEN "effects" ELSE "idle"

NavUntouchedVars ==
  <<mounted, registryVars, scrollVars, pureVars, parallaxVars, sectionIds, dom,
    formVars, animVars, detectVars>>

\* click on the hamburger button
toggleMobileMenu ==
  /\ navMounted /\ navPhase = "idle"
  /\ SetMobileMenuOpen(~isMobileMenuOpen)
  /\ effects' = <<>>
  /\ lastOp' = Op("toggleMobileMenu", 0, 0, TRUE)
  /\ UNCHANGED <<NavUntouchedVars, navMounted, isMobile, innerWidth,
                 bodyOverflow, escapeSees>>

\* click (or Enter / space) on a link of the desktop list or the mobile menu
handleNavClick(sectionId) ==
  /\ navMounted /\ navPhase = "idle"
  /\ effects' = ScrollCall(sectionId)
  /\ SetMobileMenuOpen(FALSE)
  /\ lastOp' = Op("handleNavClick", sectionId, 0, TRUE)
  /\ UNCHANGED <<NavUntouchedVars, navMounted, isMobile, innerWidth,
                 bodyOverflow, escapeSees>>

handleLogoClick ==
  /\ navMounted /\ navPhase = "idle"
  /\ effects' = ScrollCall(IF Len(sectionIds) > 0 THEN sectionIds[1] ELSE "hero")
  /\ SetMobileMenuOpen(FALSE)
  /\ lastOp' = Op("handleLogoClick", 0, 0, TRUE)
  /\ UNCHANGED <<NavUntouchedVars, navMounted, isMobile, innerWidth,
                 bodyOverflow, escapeSees>>

handleOverlayClick ==
  /\ navMounted /\ navPhase = "idle"
  /\ SetMobileMenuOpen(FALSE)
  /\ effects' = <<>>
  /\ lastOp' = Op("handleOverlayClick", 0, 0, TRUE)
  /\ UNCHANGED <<NavUntouchedVars, navMounted, isMobile, innerWidth,
                 bodyOverflow, escapeSees>>

\* keydown on document with key 'Escape'
handleEscape ==
  /\ navMounted /\ navPhase = "idle"
  /\ IF escapeSees THEN SetMobileMenuOpen(FALSE)
     ELSE UNCHANGED <<isMobileMenuOpen, navPhase>>
  /\ effects' = <<>>
  /\ lastOp' = Op("handleEscape", 0, 0, escapeSees)
  /\ UNCHANGED <<NavUntouchedVars, navMounted, isMobile, innerWidth,
                 bodyOverflow, escapeSees>>

\* resize of the window to the given width
checkMobile(width) ==
  /\ navMounted /\ navPhase = "idle"
  /\ innerWidth' = width
  /\ isMobile' = (width < MobileBreakpoint)
  /\ effects' = <<>>
  /\ lastOp' = Op("checkMobile", width, 0, TRUE)
  /\ UNCHANGED <<NavUntouchedVars, navMounted, isMobileMenuOpen, bodyOverflow,
                 escapeSees, navPhase>>

\* the scroll-lock effect without its else branch and its cleanup
NavbarEffects_neverUnlocks ==
  /\ navMounted /\ navPhase = "effects"
  /\ bodyOverflow' = IF isMobileMenuOpen THEN "hidden" ELSE bodyOverflow
  /\ escapeSees' = isMobileMenuOpen
  /\ navPhase' = "idle"
  /\ effects' = <<>>
  /\ lastOp' = Op("Navbar effects", 0, 0, isMobileMenuOpen)
  /\ UNCHANGED <<NavUntouchedVars, navMounted, isMobileMenuOpen, isMobile,
                 innerWidth>>

\* The effects with [isMobileMenuOpen] as dependency, after a render that
\* changed it: the cleanups of the previous run, then the keydown listener is
\* attached again and the scroll lock is set from the new value.
NavbarEffects ==
  /\ navMounted /\ navPhase = "effects"
  /\ LET afterCleanup == ""
     IN bodyOverflow' = IF isMobileMenuOpen THEN "hidden" ELSE afterCleanup
  /\ escapeSees' = isMobileMenuOpen
  /\ navPhase' = "idle"
  /\ effects' = <<>>
  /\ lastOp' = Op("Navbar effects", 0, 0, isMobileMenuOpen)
  /\ UNCHANGED <<NavUntouchedVars, navMounted, isMobileMenuOpen, isMobile,
                 innerWidth>>

\* Navbar unmounts: every effect's cleanup runs
NavbarUnmount ==
  /\ navMounted /\ navPhase = "idle"
  /\ navMounted' = FALSE
  /\ bodyOverflow' = ""
  /\ effects' = <<>>
  /\ lastOp' = Op("Navbar unmount", 0, 0, TRUE)
  /\ UNCHANGED <<NavUntouchedVars, isMobileMenuOpen, isMobile, innerWidth,
                 escapeSees, navPhase>>

NavbarAtRest ==
  /\ navMounted = FALSE
  /\ isMobileMenuOpen = FALSE
  /\ isMobile = FALSE
  /\ innerWidth = 1024
  /\ bodyOverflow = ""
  /\ escapeSees = FALSE
  /\ navPhase = "idle"

\* ------------------------------------- visual components that own a timeline
\* RevealWrapper and HeroSection create a timeline in an effect, register it
\* under a random id and release it in the effect's cleanup.  The cleanup runs
\* when the component unmounts, when the effect re-runs (isReducedMotion,
\* hasAnimated or a prop changed) and, after the provider's own cleanup, when
\* the whole tree unmounts.
Components == {"RevealWrapper", "HeroSection"}
NoAnim == [id |-> 0, timeline |-> 0]
MethodCall(method, c, caller) == [kind |-> method, target |-> c, by |-> caller]

ComponentUntouchedVars ==
  <<mounted, mediaMatches, isReducedMotion, scrollVars, pureVars, parallaxVars,
    sectionIds, dom, formVars, navVars, detectVars>>

\* The effect body on a path that creates a timeline: motion is not reduced
\* and the component has not animated yet.  RevealWrapper's timeline is
\* created paused and played at once inside #hero, or left to its
\* ScrollTrigger elsewhere; HeroSection's timeline plays from creation.
ComponentEffect(k, id, c, initial) ==
  /\ mounted /\ ~isReducedMotion
  /\ anim[k] = NoAnim
  /\ c \in FreshControllers
  /\ id \notin Registered
  /\ k = "HeroSection" => initial = "playing"
  /\ timelines' = [i \in Registered \cup {id} |->
                     IF i = id THEN [timeline |-> c, isVisible |-> TRUE]
                     ELSE timelines[i]]
  /\ calls' = {}
  /\ effects' = <<>>
  /\ ctl' = [ctl EXCEPT ![c] = initial]
  /\ anim' = [anim EXCEPT ![k] = [id |-> id, timeline |-> c]]
  /\ lastOp' = Op("component effect", id, c, initial = "paused")
  /\ UNCHANGED ComponentUntouchedVars

\* unregisterAnimation(id) as called from a cleanup: the kill() it issues
UnregisterCalls(id) ==
  IF id \in Registered
  THEN <<MethodCall("kill", timelines[id].timeline, "unregisterAnimation")>>
  ELSE <<>>

\* RevealWrapper: tl.kill(); unregisterAnimation(animationId)
RevealWrapper_cleanup ==
  /\ anim["RevealWrapper"] # NoAnim
  /\ LET a == anim["RevealWrapper"] IN
       /\ effects' = <<MethodCall("kill", a.timeline, "RevealWrapper")>>
                       \o UnregisterCalls(a.id)
       /\ timelines' = [i \in Registered \ {a.id} |-> timelines[i]]
       /\ lastOp' = Op("component cleanup", a.id, a.timeline, TRUE)
  /\ calls' = {<<effects'[n].kind, effects'[n].target>> : n \in 1..Len(effects')}
  /\ ctl' = [c \in Controllers |-> Effect(ctl[c], c, calls')]
  /\ anim' = [anim EXCEPT !["RevealWrapper"] = NoAnim]
  /\ UNCHANGED ComponentUntouchedVars

\* HeroSection: unregisterAnimation(animationId)
HeroSection_cleanup ==
  /\ anim["HeroSection"] # NoAnim
  /\ LET a == anim["HeroSection"] IN
       /\ effects' = UnregisterCalls(a.id)
       /\ timelines' = [i \in Registered \ {a.id} |-> timelines[i]]
       /\ lastOp' = Op("component cleanup", a.id, a.timeline, FALSE)
  /\ calls' = {<<effects'[n].kind, effects'[n].target>> : n \in 1..Len(effects')}
  /\ ctl' = [c \in Controllers |-> Effect(ctl[c], c, calls')]
  /\ anim' = [anim EXCEPT !["HeroSection"] = NoAnim]
  /\ UNCHANGED ComponentUntouchedVars

AnimAtRest == anim = [k \in Components |-> NoAnim]


\* ------------------------------- useScrollController: section detection
\* setCurrentSection is called from an animation-frame callback, not from a
\* React event handler, so React renders the change in a later task and runs
\* the effect again (cleanup, then a new run with the new currentSection in
\* its closures) after that; scroll events and frames that arrive before the
\* re-run are handled by the listeners and callbacks of the previous run.
MaxScrollEvents == 3

SectionCall(method, sectionId) == [kind |-> method, target |-> sectionId]

\* Three sections of height 2 stacked below each other, the page scrolled by
\* y, the viewport 2 high.
LayoutAt(y) ==
  [id \in {NavSections[k] : k \in 1..Len(NavSections)} |->
     LET k == CHOOSE n \in 1..Len(NavSections) : NavSections[n] = id
     IN Rect(2 * (k - 1) - y, 2 * k - y)]
Offsets == 0..MaxScroll

SectionFrame(id, sees) == [id |-> id, sees |-> sees, stale |-> FALSE]
\* requestAnimationFrame returns an id that no pending frame has
NewFrameId(pending) ==
  CHOOSE n \in 1..(Cardinality(pending) + 1) : \A f \in pending : f.id # n

DetectUntouchedVars ==
  <<mounted, registryVars, scrollVars, pureVars, parallaxVars, sectionIds,
    formVars, navVars, animVars>>

\* updateCurrentSection without the re-scheduling in the throttle branch
updateCurrentSection_dropsThrottled(sees, pending) ==
  IF ~throttleOpen
  THEN /\ sectionFrames' = pending
       /\ effects' = <<>>
       /\ UNCHANGED <<sectionRafId, throttleOpen, currentSection>>
  ELSE LET detected == detectedSection IN
       /\ throttleOpen' = FALSE
       /\ currentSection' = IF detected # sees THEN detected
                            ELSE currentSection
       /\ effects' = IF detected = sees THEN <<>>
                     ELSE <<SectionCall("setCurrentSection", detected)>> \o
                          (IF hasOnSectionChange
                           THEN <<SectionCall("onSectionChange", detected)>>
                           ELSE <<>>)
       /\ sectionRafId' = NoFrame
       /\ sectionFrames' = pending

\* updateCurrentSection of the effect run that saw currentSection = sees,
\* with the frames in pending still requested
updateCurrentSection(sees, pending) ==
  IF ~throttleOpen
  THEN /\ sectionRafId' = NewFrameId(pending)
       /\ sectionFrames' = pending \cup {SectionFrame(NewFrameId(pending), sees)}
       /\ effects' = <<>>
       /\ UNCHANGED <<throttleOpen, currentSection>>
  ELSE LET detected == detectedSection IN
       /\ throttleOpen' = FALSE
       /\ currentSection' = IF detected # sees THEN detected
                            ELSE currentSection
       /\ effects' = IF detected = sees THEN <<>>
                     ELSE <<SectionCall("setCurrentSection", detected)>> \o
                          (IF hasOnSectionChange
                           THEN <<SectionCall("onSectionChange", detected)>>
                           ELSE <<>>)
       /\ sectionRafId' = NoFrame
       /\ sectionFrames' = pending

\* the effect's cleanup without cancelAnimationFrame
SectionCleanup_keepsFrame == {[f EXCEPT !.stale = TRUE] : f \in sectionFrames}

\* The effect's cleanup: the frame named by rafIdRef.current is cancelled
\* (the ref itself keeps the id); a frame that stays requested belongs to a
\* run that has been cleaned up.
SectionCleanup ==
  {[f EXCEPT !.stale = TRUE] : f \in {g \in sectionFrames : g.id # sectionRafId}}

\* The effect runs: at mount, and again after a render in which one of its
\* dependencies changed (currentSection, or the sectionIds array that Navbar
\* builds anew in every render).  A re-run first cleans the previous run up.
SectionEffect ==
  /\ hookMounted
  /\ closureSection' = currentSection
  /\ effectRuns' = TRUE
  /\ updateCurrentSection(currentSection,
                          IF effectRuns THEN SectionCleanup ELSE sectionFrames)
  /\ lastOp' = Op("section effect", 0, 0, effectRuns)
  /\ UNCHANGED <<DetectUntouchedVars, dom, hookMounted, hasOnSectionChange,
                 eventsLeft, detectedSection>>

\* handleScroll of the attached listeners
handleSectionScroll ==
  IF sectionRafId = NoFrame
  THEN /\ sectionRafId' = NewFrameId(sectionFrames)
       /\ sectionFrames' = sectionFrames \cup
                             {SectionFrame(NewFrameId(sectionFrames), closureSection)}
  ELSE UNCHANGED <<sectionRafId, sectionFrames>>

\* a scroll or resize event that leaves the page scrolled by y
SectionScrollEvent(y) ==
  /\ hookMounted /\ effectRuns
  /\ eventsLeft > 0
  /\ eventsLeft' = eventsLeft - 1
  /\ dom' = LayoutAt(y)
  /\ handleSectionScroll
  /\ effects' = <<>>
  /\ lastOp' = Op("section scroll", y, 0, sectionRafId = NoFrame)
  /\ UNCHANGED <<DetectUntouchedVars, hookMounted, currentSection,
                 closureSection, effectRuns, throttleOpen, hasOnSectionChange>>
  /\ detectedSection' = DetectLoop(LayoutAt(y), sectionIds, 1,
                                 FirstOrEmpty(sectionIds), Zero, FALSE)

\* the browser runs the callback of a requested frame
SectionFrameCallback(f) ==
  /\ f \in sectionFrames
  /\ updateCurrentSection(f.sees, sectionFrames \ {f})
  /\ lastOp' = Op("section frame", f.id, 0, f.stale)
  /\ UNCHANGED <<DetectUntouchedVars, dom, hookMounted, closureSection,
                 effectRuns, hasOnSectionChange, eventsLeft, detectedSection>>

\* throttleMs have passed since the last detection
ThrottleElapses ==
  /\ ~throttleOpen
  /\ throttleOpen' = TRUE
  /\ effects' = <<>>
  /\ lastOp' = Op("throttle elapses", 0, 0, TRUE)
  /\ UNCHANGED <<DetectUntouchedVars, dom, hookMounted, currentSection,
                 closureSection, effectRuns, sectionRafId, sectionFrames,
                 hasOnSectionChange, eventsLeft, detectedSection>>

\* the component that uses the hook unmounts: the effect's cleanup
SectionUnmount ==
  /\ hookMounted /\ effectRuns
  /\ hookMounted' = FALSE
  /\ sectionFrames' = SectionCleanup
  /\ effects' = <<>>
  /\ lastOp' = Op("section unmount", 0, 0, sectionFrames # {})
  /\ UNCHANGED <<DetectUntouchedVars, dom, currentSection, closureSection,
                 effectRuns, sectionRafId, throttleOpen, hasOnSectionChange,
                 eventsLeft, detectedSection>>

DetectAtRest ==
  /\ hookMounted = FALSE
  /\ currentSection = "hero"
  /\ closureSection = ""
  /\ effectRuns = FALSE
  /\ sectionRafId = NoFrame
  /\ sectionFrames = {}
  /\ throttleOpen = TRUE
  /\ hasOnSectionChange = FALSE
  /\ eventsLeft = 0
  /\ detectedSection = ""

ComponentsAtRest == NavbarAtRest /\ AnimAtRest /\ DetectAtRest

\* ----------------------------- direct calls of the parallax calculations
MaxDen == 4
CalcProgresses == {Div(k, MaxDen) : k \in 0..MaxDen}

\* calculateParallaxPosition(p, s, baseRange, bounds)
CallCalculateParallaxPosition ==
  /\ lastOp.op = "arguments"
  /\ fnResult' = calculateParallaxPosition(fnArgs.p, fnArgs.s, fnArgs.baseRange,
                                           fnArgs.bounds)
  /\ lastOp' = Op("calculateParallaxPosition", 0, 0, TRUE)
  /\ UNCHANGED <<mounted, registryVars, scrollVars, fnArgs, hookVars>>

\* the positions at p and p2 and calculatePositionDelta(p2 - p, s, baseRange)
CallCalculatePositionDelta ==
  /\ lastOp.op = "arguments"
  /\ fnResult' =
       [at1 |-> calculateParallaxPosition(fnArgs.p, fnArgs.s, fnArgs.baseRange,
                                          NoBounds),
        at2 |-> calculateParallaxPosition(fnArgs.p2, fnArgs.s, fnArgs.baseRange,
                                          NoBounds),
        delta |-> calculatePositionDelta(FSub(fnArgs.p2, fnArgs.p), fnArgs.s,
                                         fnArgs.baseRange)]
  /\ lastOp' = Op("calculatePositionDelta", 0, 0, TRUE)
  /\ UNCHANGED <<mounted, registryVars, scrollVars, fnArgs, hookVars>>

\* ---------------------------------------------------------- specifications
\* State after the provider's first render and mount effects: the registry
\* is empty, isReducedMotion was read from the media query, and the scroll
\* effect has run its initial updateScrollProgress().
Init ==
  /\ mounted = TRUE
  /\ mediaMatches \in BOOLEAN
  /\ isReducedMotion = mediaMatches
  /\ timelines = <<>>
  /\ ctl = [c \in Controllers |-> "fresh"]
  /\ calls = {}
  /\ lastOp = Op("mount", 0, 0, TRUE)
  /\ scrollY = 0
  /\ documentHeight \in Heights
  /\ viewportHeight \in Heights
  /\ scrollProgress = calculateScrollProgress(scrollY, documentHeight, viewportHeight)
  /\ rafId = NoFrame
  /\ pendingFrames = {}
  /\ nextFrame = 1
  /\ lastDims = Dims(scrollY, documentHeight, viewportHeight)
  /\ fnArgs = <<0, 0, 0>>
  /\ fnResult = calculateScrollProgress(0, 0, 0)
  /\ ParallaxAtRest
  /\ SectionsAtRest
  /\ FormAtRest
  /\ ComponentsAtRest

InitPure ==
  /\ Init
  /\ mediaMatches = FALSE
  /\ documentHeight = 1
  /\ viewportHeight = 1

InitRegistry ==
  /\ Init
  /\ documentHeight = 2
  /\ viewportHeight = 1

InitScroll ==
  /\ Init
  /\ mediaMatches = FALSE

RegistryNext ==
  \/ \E id \in Ids, c \in FreshControllers, initial \in {"playing", "paused"} :
        /\ \A g \in FreshControllers : c <= g
        /\ registerAnimation(id, c, initial)
  \/ \E id \in Ids : unregisterAnimation(id)
  \/ \E id \in Ids, isVisible \in BOOLEAN : setAnimationVisibility(id, isVisible)
  \/ \E matches \in BOOLEAN : handleChange(matches)
  \/ Unmount

ScrollNext ==
  \/ \E y \in ((-1)..MaxScroll) : ScrollEvent(y)
  \/ \E dH \in Heights, vH \in Heights : ResizeEvent(dH, vH)
  \/ FrameCallback
  \/ Unmount

PureNext ==
  \E y \in ((-2)..(MaxScroll + 2)), dH \in PureHeights, vH \in PureHeights :
     CallCalculateScrollProgress(y, dH, vH)

SpecRegistry == InitRegistry /\ [][RegistryNext]_vars
SpecScroll == InitScroll /\ [][ScrollNext]_vars
SpecPure == InitPure /\ [][PureNext]_vars

\* ================================================================= claims
TimelineOf(i) == timelines[i].timeline
CallsOn(c) == {call \in calls : call[2] = c}

\* C1: whatever the sequence of register, setAnimationVisibility, unregister
\* and preference-change events, no step calls resume() on a timeline while
\* the motion preference is reduced, whatever the entry's isVisible flag is.
C1_NeverResumedWhileReduced ==
  \A call \in calls : call[1] = "resume" => ~mediaMatches

\* the case: motion is reduced and setAnimationVisibility(id, true) has just
\* been called on a registered, paused timeline, which stays paused
C1_Witness ==
  /\ mediaMatches
  /\ lastOp.op = "setAnimationVisibility"
  /\ lastOp.flag
  /\ lastOp.id \in Registered
  /\ timelines[lastOp.id].isVisible
  /\ ctl[TimelineOf(lastOp.id)] = "paused"

\* C2: the published scrollProgress is in [0,1], and it is 0 whenever the
\* document was not taller than the viewport at the last recomputation.
C2_ProgressClamped ==
  mounted =>
    /\ FLeq(Zero, scrollProgress)
    /\ FLeq(scrollProgress, One)
    /\ lastDims.documentHeight <= lastDims.viewportHeight => scrollProgress = Zero

\* the case: a frame callback recomputed the progress with the window
\* scrolled past the maximum, and the published value is the clamped 1
C2_Witness ==
  /\ mounted
  /\ lastOp.op = "frame"
  /\ scrollY > documentHeight - viewportHeight
  /\ documentHeight > viewportHeight
  /\ scrollProgress = One

\* C3: calculateScrollProgress returns 0 when documentHeight <= viewportHeight
\* or scrollY < 0, 1 when scrollY >= documentHeight - viewportHeight > 0, and
\* scrollY / (documentHeight - viewportHeight) otherwise; always within [0,1].
C3_CalculateScrollProgress ==
  lastOp.op = "calculateScrollProgress" =>
    LET y == fnArgs[1]
        dH == fnArgs[2]
        vH == fnArgs[3]
        r == fnResult
    IN /\ (dH <= vH \/ y < 0) => r = Zero
       /\ (dH - vH > 0 /\ y >= dH - vH) => r = One
       /\ (dH > vH /\ y >= 0 /\ y < dH - vH) =>
             /\ r[2] > 0
             /\ r[1] * (dH - vH) = y * r[2]
       /\ FLeq(Zero, r)
       /\ FLeq(r, One)

\* the case: a call strictly inside the scroll range, 1 / (3 - 1) = 1/2
C3_Witness ==
  /\ lastOp.op = "calculateScrollProgress"
  /\ fnArgs = <<1, 3, 1>>
  /\ fnResult = <<1, 2>>

\* C4: at every moment at most one scroll-progress recomputation is pending
\* for an animation frame.
C4_AtMostOnePending ==
  Cardinality(pendingFrames) <= 1

\* C5: after the provider is unmounted no pending recomputation runs:
\* updateScrollProgress is never executed by a frame callback after unmount.
C5_NoRecomputationAfterUnmount ==
  ~(lastOp.op = "frame" /\ ~mounted)

\* C6: once every scheduled animation frame has fired, the published
\* scrollProgress is calculateScrollProgress of the current scroll position
\* and dimensions: the last request of a burst is never lost.
C6_LastValueNotLost ==
  (mounted /\ pendingFrames = {}) =>
    scrollProgress = calculateScrollProgress(scrollY, documentHeight, viewportHeight)

\* the case: the frame requested by a scroll event has fired, nothing is
\* pending any more and the published value is the one for the scroll
\* position the callback read
C6_Witness ==
  /\ mounted
  /\ lastOp.op = "frame"
  /\ pendingFrames = {}
  /\ scrollProgress = <<1, 2>>
  /\ lastDims.scrollY = scrollY

\* C7: a preference-change event sweeps the whole registry: when motion is
\* now reduced every registered timeline is paused; when it is no longer
\* reduced exactly the timelines of entries with isVisible = true are resumed
\* and every timeline of an entry with isVisible = false stays paused.
C7_SweepOnPreferenceChange ==
  lastOp.op = "handleChange" =>
    /\ \A call \in calls : \E i \in Registered : TimelineOf(i) = call[2]
    /\ \A i \in Registered :
         IF lastOp.flag
         THEN /\ CallsOn(TimelineOf(i)) = {<<"pause", TimelineOf(i)>>}
              /\ ctl[TimelineOf(i)] = "paused"
         ELSE IF timelines[i].isVisible
         THEN /\ CallsOn(TimelineOf(i)) = {<<"resume", TimelineOf(i)>>}
              /\ ctl[TimelineOf(i)] = "playing"
         ELSE /\ CallsOn(TimelineOf(i)) = {}
              /\ ctl[TimelineOf(i)] = "paused"

\* the case: the preference has just flipped to non-reduced with one visible
\* and one non-visible entry in the registry
C7_Witness ==
  /\ lastOp.op = "handleChange"
  /\ ~lastOp.flag
  /\ \E i \in Registered : timelines[i].isVisible
  /\ \E i \in Registered : ~timelines[i].isVisible

\* C8: registerAnimation(id, timeline) stores [timeline, isVisible = true]
\* under id; with reduced motion it pauses the timeline at once, otherwise
\* it calls nothing on it and its play state stays as the caller created it.
C8_Register ==
  [][lastOp'.op = "registerAnimation" =>
       LET id == lastOp'.id
           c == lastOp'.timeline
       IN /\ id \in DOMAIN timelines'
          /\ timelines'[id] = [timeline |-> c, isVisible |-> TRUE]
          /\ mediaMatches => /\ calls' = {<<"pause", c>>}
                             /\ ctl'[c] = "paused"
          /\ ~mediaMatches => /\ calls' = {}
                              /\ ctl'[c] = IF lastOp'.flag THEN "paused"
                                           ELSE "playing"]_vars

\* the case: a playing timeline was registered under reduced motion
C8_Witness ==
  /\ lastOp.op = "registerAnimation"
  /\ ~lastOp.flag
  /\ mediaMatches
  /\ lastOp.id \in Registered
  /\ ctl[lastOp.timeline] = "paused"

\* C9: setAnimationVisibility(id, false) on a registered id records
\* isVisible = false and leaves the timeline paused (pausing it if it was
\* running); setAnimationVisibility(id, true) records isVisible = true and
\* resumes a paused timeline only if motion is not reduced; with an unknown
\* id no entry changes and no timeline is touched.
C9_SetVisibility ==
  [][lastOp'.op = "setAnimationVisibility" =>
       LET id == lastOp'.id
           v == lastOp'.flag
       IN IF id \in Registered
          THEN LET c == TimelineOf(id) IN
               /\ timelines' = [timelines EXCEPT ![id].isVisible = v]
               /\ \A d \in Controllers \ {c} : ctl'[d] = ctl[d]
               /\ ~v => /\ ctl'[c] = "paused"
                        /\ calls' = IF ctl[c] = "paused" THEN {}
                                    ELSE {<<"pause", c>>}
               /\ v => IF ctl[c] = "paused" /\ ~mediaMatches
                       THEN calls' = {<<"resume", c>>} /\ ctl'[c] = "playing"
                       ELSE calls' = {} /\ ctl'[c] = ctl[c]
          ELSE /\ timelines' = timelines
               /\ ctl' = ctl
               /\ calls' = {}]_vars

\* the case: a timeline paused by setAnimationVisibility(id, false) has just
\* been resumed by setAnimationVisibility(id, true) with motion not reduced
C9_Witness ==
  /\ lastOp.op = "setAnimationVisibility"
  /\ lastOp.flag
  /\ ~mediaMatches
  /\ lastOp.id \in Registered
  /\ timelines[lastOp.id].isVisible
  /\ calls = {<<"resume", TimelineOf(lastOp.id)>>}

\* C10: unregisterAnimation(id) on a registered id kills that entry's
\* timeline and removes the entry, leaving every other entry and timeline
\* unchanged; with an unknown id it changes nothing and kills nothing.
C10_Unregister ==
  [][lastOp'.op = "unregisterAnimation" =>
       LET id == lastOp'.id IN
       IF id \in Registered
       THEN LET c == TimelineOf(id) IN
            /\ calls' = {<<"kill", c>>}
            /\ ctl'[c] = "killed"
            /\ DOMAIN timelines' = Registered \ {id}
            /\ \A i \in Registered \ {id} : timelines'[i] = timelines[i]
            /\ \A d \in Controllers \ {c} : ctl'[d] = ctl[d]
       ELSE /\ timelines' = timelines
            /\ ctl' = ctl
            /\ calls' = {}]_vars

\* the case: one of two registered entries has just been unregistered
C10_Witness ==
  /\ lastOp.op = "unregisterAnimation"
  /\ \E c \in Controllers : calls = {<<"kill", c>>} /\ ctl[c] = "killed"
  /\ lastOp.id \notin Registered
  /\ Registered # {}

\* C11: when the provider is torn down, every timeline still held in the
\* registry is killed and the registry is empty afterwards, whatever
\* register, unregister, visibility and preference events came before.
C11_TeardownDisposesAll ==
  [][lastOp'.op = "unmount" =>
       /\ calls' = {<<"kill", TimelineOf(i)>> : i \in Registered}
       /\ \A i \in Registered : ctl'[TimelineOf(i)] = "killed"
       /\ \A c \in Controllers :
            (\A i \in Registered : TimelineOf(i) # c) => ctl'[c] = ctl[c]
       /\ timelines' = <<>>]_vars

\* the case: the provider was torn down with two timelines in the registry,
\* both are killed and the registry is empty
C11_Witness ==
  /\ lastOp.op = "unmount"
  /\ ~mounted
  /\ Registered = {}
  /\ Cardinality(calls) = 2
  /\ \A call \in calls : call[1] = "kill" /\ ctl[call[2]] = "killed"

\* ------------------------------------------- specifications of the hooks
\* useParallax after its first render: layerStates holds what the lazy
\* initialiser built, the two effects of the mount are still to run.
ParallaxMounted ==
  /\ mounted = TRUE
  /\ mediaMatches \in BOOLEAN
  /\ isReducedMotion = mediaMatches
  /\ timelines = <<>>
  /\ ctl = [c \in Controllers |-> "fresh"]
  /\ calls = {}
  /\ lastOp = Op("mount", 0, 0, TRUE)
  /\ scrollY = 0
  /\ documentHeight = 2
  /\ viewportHeight = 1
  /\ scrollProgress \in HookProgresses
  /\ rafId = NoFrame
  /\ pendingFrames = {}
  /\ nextFrame = 1
  /\ lastDims = Dims(scrollY, documentHeight, viewportHeight)
  /\ fnArgs = <<0, 0, 0>>
  /\ fnResult = Zero
  /\ pxOwner \in {"renderHook", "ParallaxWrapper"}
  /\ pxLayers \in LayerArrays
  /\ pxDisabled \in BOOLEAN
  /\ pxOwner = "ParallaxWrapper" =>
        DOMAIN pxLayers = {WrapperLayerId} /\ ~pxDisabled
  /\ pxLayersRef = 0
  /\ pxBoundsRef = 0
  /\ pxRounds = 0
  /\ pxBaseScrollRange \in {NoRange, 800}
  /\ pxBaseRange = MemoBaseRange(pxBaseScrollRange)
  /\ layerStates = LayerStatesFromLayers(pxLayers, scrollProgress, pxBaseRange,
                                         isDisabled)
  /\ pxPhase = "mount"
  /\ SectionsAtRest
  /\ FormAtRest
  /\ ComponentsAtRest


ParallaxNext ==
  \/ \E p \in HookProgresses : ParallaxScrollProgress(p)
  \/ \E matches \in BOOLEAN : ParallaxReducedMotion(matches)
  \/ \E disabled \in BOOLEAN : ParallaxSetDisabled(disabled)
  \/ \E layers \in LayerArrays : ParallaxSetLayers(layers)
  \/ \E option \in {NoRange, 800} : ParallaxSetBaseScrollRange(option)
  \/ \E bounds \in {NoBounds, Bounds(<<1, 4>>, <<3, 4>>)} : \E fresh \in BOOLEAN :
        ParallaxWrapperRender(bounds, fresh)
  \/ \E height \in {1, 2} : ParallaxResize(height)
  \/ ParallaxEffects

SpecParallax == ParallaxMounted /\ [][ParallaxNext]_vars

InitParallaxCalc ==
  /\ mounted = TRUE
  /\ mediaMatches = FALSE
  /\ isReducedMotion = FALSE
  /\ timelines = <<>>
  /\ ctl = [c \in Controllers |-> "fresh"]
  /\ calls = {}
  /\ lastOp = Op("arguments", 0, 0, TRUE)
  /\ scrollY = 0
  /\ documentHeight = 1
  /\ viewportHeight = 1
  /\ scrollProgress = Zero
  /\ rafId = NoFrame
  /\ pendingFrames = {}
  /\ nextFrame = 1
  /\ lastDims = Dims(0, 1, 1)
  /\ fnArgs \in [p : CalcProgresses, p2 : CalcProgresses,
                 s : {<<1, 2>>, <<1, 1>>, <<2, 1>>, <<-1, 1>>},
                 baseRange : {0, 1, 800},
                 bounds : {NoBounds} \cup
                          {Bounds(a, b) : <<a, b>> \in
                             {ab \in CalcProgresses \X CalcProgresses :
                                FLess(ab[1], ab[2])}}]
  /\ fnResult = Zero
  /\ ParallaxAtRest
  /\ SectionsAtRest
  /\ FormAtRest
  /\ ComponentsAtRest

ParallaxCalcNext ==
  \/ CallCalculateParallaxPosition
  \/ CallCalculatePositionDelta

SpecParallaxCalc == InitParallaxCalc /\ [][ParallaxCalcNext]_vars

\* detectCurrentSection and scrollToSection over every layout of up to three
\* sections: which ids are listed and in which order, which of them have an
\* element, where its box lies, and how tall the viewport is.
RECURSIVE ListsOver(_)
ListsOver(S) ==
  {<<>>} \cup UNION {{<<x>> \o l : l \in ListsOver(S \ {x})} : x \in S}

\* The provider as the hooks and components below find it: mounted, nothing
\* registered, no frame requested, the page at its top.
ProviderAtRest ==
  /\ mounted = TRUE
  /\ mediaMatches = FALSE
  /\ isReducedMotion = FALSE
  /\ timelines = <<>>
  /\ ctl = [c \in Controllers |-> "fresh"]
  /\ calls = {}
  /\ scrollY = 0
  /\ documentHeight = MaxHeight
  /\ scrollProgress = calculateScrollProgress(scrollY, documentHeight, viewportHeight)
  /\ rafId = NoFrame
  /\ pendingFrames = {}
  /\ nextFrame = 1
  /\ lastDims = Dims(scrollY, documentHeight, viewportHeight)
  /\ fnArgs = <<0, 0, 0>>

InitSections ==
  /\ viewportHeight \in Heights
  /\ ProviderAtRest
  /\ lastOp = Op("mount", 0, 0, TRUE)
  /\ fnResult = ""
  /\ sectionIds \in ListsOver(SectionNames)
  /\ \E rendered \in SUBSET SectionNames :
        dom \in [rendered -> {Rect(top, top + height) :
                                top \in (-1)..2, height \in 1..2}]
  /\ effects = <<>>
  /\ ParallaxAtRest
  /\ FormAtRest
  /\ ComponentsAtRest

SectionsNext ==
  \/ CallDetectCurrentSection
  \/ \E sectionId \in SectionNames : scrollToSection(sectionId)

SpecSections == InitSections /\ [][SectionsNext]_vars

\* ContactForm after its first render, with or without the onSubmit prop.
InitForm ==
  /\ viewportHeight = 1
  /\ ProviderAtRest
  /\ lastOp = Op("mount", 0, 0, TRUE)
  /\ fnResult = Zero
  /\ ParallaxAtRest
  /\ SectionsAtRest
  /\ formData = EmptyForm
  /\ formErrors = NoErrors
  /\ formStatus = "idle"
  /\ touched = {}
  /\ hasOnSubmit \in BOOLEAN
  /\ inFlight = 0
  /\ ComponentsAtRest

FormNext ==
  \/ \E name \in Fields : \E value \in FormValues(name) :
        ContactForm_handleChange(name, value)
  \/ \E name \in Fields : handleBlur(name)
  \/ handleSubmit
  \/ onSubmitResolves
  \/ onSubmitRejects

SpecForm == InitForm /\ [][FormNext]_vars

\* C12: whenever useParallax reports isDisabled = true, in that same render
\* getLayerPosition returns 0 for every layer and getLayerStyle returns the
\* empty style, in every render, also the first one after the flag turned
\* from false to true.
C12_DisabledForcesZero ==
  isDisabled =>
    \A id \in LayerIds : /\ getLayerPosition(id) = Zero
                         /\ getLayerStyle(id) = EmptyStyle

\* C13: calculateParallaxPosition(p, s, baseRange, bounds) is
\* effective * baseRange * s, with effective = p without bounds and, with
\* bounds, 0 below start, 1 above end and (p - start) / (end - start) in
\* between; so the result is 0 at p = start and baseRange * s at p = end.
C13_CalculateParallaxPosition ==
  lastOp.op = "calculateParallaxPosition" =>
    LET p == fnArgs.p
        b == fnArgs.bounds
        full == FMul(FInt(fnArgs.baseRange), fnArgs.s)
        r == fnResult
    IN /\ ~b.defined => r = FMul(p, full)
       /\ (b.defined /\ FLess(p, b.start)) => r = Zero
       /\ (b.defined /\ FLess(b.end, p)) => r = full
       /\ (b.defined /\ ~FLess(p, b.start) /\ ~FLess(b.end, p)) =>
             FMul(r, FSub(b.end, b.start)) = FMul(FSub(p, b.start), full)
       /\ (b.defined /\ p = b.start) => r = Zero
       /\ (b.defined /\ p = b.end) => r = full

\* the case: a call inside the window, (1/2 - 1/4) / (3/4 - 1/4) * 800 * 1/2
C13_Witness ==
  /\ lastOp.op = "calculateParallaxPosition"
  /\ fnArgs.p = <<1, 2>>
  /\ fnArgs.s = <<1, 2>>
  /\ fnArgs.baseRange = 800
  /\ fnArgs.bounds = Bounds(<<1, 4>>, <<3, 4>>)
  /\ fnResult = <<200, 1>>

\* C14: without bounds, the positions at two scroll fractions p1 and p2
\* differ by calculatePositionDelta(p2 - p1, s, baseRange), which is
\* (p2 - p1) * baseRange * s.
C14_DeltaIsLinear ==
  lastOp.op = "calculatePositionDelta" =>
    /\ FSub(fnResult.at2, fnResult.at1) = fnResult.delta
    /\ fnResult.delta[1] * fnArgs.p[2] * fnArgs.p2[2] * fnArgs.s[2] =
         (fnArgs.p2[1] * fnArgs.p[2] - fnArgs.p[1] * fnArgs.p2[2])
           * fnArgs.baseRange * fnArgs.s[1] * fnResult.delta[2]

\* the case: from 1/4 to 3/4 with multiplier 2 and range 800: 400 -> 1200
C14_Witness ==
  /\ lastOp.op = "calculatePositionDelta"
  /\ fnArgs.p = <<1, 4>>
  /\ fnArgs.p2 = <<3, 4>>
  /\ fnArgs.s = <<2, 1>>
  /\ fnArgs.baseRange = 800
  /\ fnResult = [at1 |-> <<400, 1>>, at2 |-> <<1200, 1>>, delta |-> <<800, 1>>]

\* C19: once useParallax's effects have run for the current options,
\* layerStates holds exactly the ids of the current layers array, each with
\* that layer's current speedMultiplier and direction.
C19_LayerStatesFollowLayers ==
  pxPhase = "idle" =>
    /\ DOMAIN layerStates = DOMAIN pxLayers
    /\ \A id \in DOMAIN pxLayers :
         /\ layerStates[id].speedMultiplier = pxLayers[id].speedMultiplier
         /\ layerStates[id].direction = pxLayers[id].direction

\* the case: the effects have just run for a new layers array, passed while
\* parallax is disabled, that holds both layers, layer1 with multiplier 2
C19_Witness ==
  /\ lastOp.op = "useParallaxEffects"
  /\ lastOp.id = "layers"
  /\ pxPhase = "idle"
  /\ isDisabled
  /\ DOMAIN layerStates = LayerIds
  /\ layerStates["layer1"].speedMultiplier = <<2, 1>>
  /\ layerStates["layer2"].speedMultiplier = <<1, 2>>

\* Navbar after its mount effects: the menu closed, isMobile read from the
\* window width, the page with any subset of the sections rendered.
InitNavbar ==
  /\ viewportHeight = 1
  /\ ProviderAtRest
  /\ lastOp = Op("mount", 0, 0, TRUE)
  /\ fnResult = Zero
  /\ ParallaxAtRest
  /\ FormAtRest
  /\ sectionIds = NavSections
  /\ \E rendered \in SUBSET SectionNames : dom = [id \in rendered |-> Rect(0, 1)]
  /\ effects = <<>>
  /\ navMounted = TRUE
  /\ isMobileMenuOpen = FALSE
  /\ innerWidth \in InnerWidths
  /\ isMobile = (innerWidth < MobileBreakpoint)
  /\ bodyOverflow = ""
  /\ escapeSees = FALSE
  /\ navPhase = "idle"
  /\ AnimAtRest
  /\ DetectAtRest

NavbarNext ==
  \/ toggleMobileMenu
  \/ \E sectionId \in SectionNames : handleNavClick(sectionId)
  \/ handleLogoClick
  \/ handleOverlayClick
  \/ handleEscape
  \/ \E width \in InnerWidths : checkMobile(width)
  \/ NavbarEffects
  \/ NavbarUnmount

SpecNavbar == InitNavbar /\ [][NavbarNext]_vars

\* The provider with the two components that register timelines: effects and
\* cleanups of the components, motion-preference changes and the teardown of
\* the provider, after which the cleanups of the components still run.
ComponentsNext ==
  \/ \E k \in Components, id \in Ids, c \in FreshControllers,
        initial \in {"playing", "paused"} :
        /\ \A g \in FreshControllers : c <= g
        /\ ComponentEffect(k, id, c, initial)
  \/ RevealWrapper_cleanup
  \/ HeroSection_cleanup
  \/ \E matches \in BOOLEAN : handleChange(matches)
  \/ Unmount

SpecComponents == InitRegistry /\ [][ComponentsNext]_vars

\* useScrollController after the first render of its component, the effect
\* still to run: the page at some scroll offset, the provider's initial
\* section 'hero', and performance.now() either past throttleMs or not.
InitDetection ==
  /\ viewportHeight = 2
  /\ ProviderAtRest
  /\ lastOp = Op("mount", 0, 0, TRUE)
  /\ fnResult = Zero
  /\ ParallaxAtRest
  /\ FormAtRest
  /\ NavbarAtRest
  /\ AnimAtRest
  /\ sectionIds = NavSections
  /\ \E y \in Offsets : dom = LayoutAt(y)
  /\ effects = <<>>
  /\ hookMounted = TRUE
  /\ currentSection = "hero"
  /\ closureSection = ""
  /\ effectRuns = FALSE
  /\ sectionRafId = NoFrame
  /\ sectionFrames = {}
  /\ throttleOpen \in BOOLEAN
  /\ hasOnSectionChange \in BOOLEAN
  /\ eventsLeft = MaxScrollEvents
  /\ detectedSection = detectCurrentSection(sectionIds)

DetectionNext ==
  \/ SectionEffect
  \/ \E y \in Offsets : SectionScrollEvent(y)
  \/ \E f \in sectionFrames : SectionFrameCallback(f)
  \/ ThrottleElapses
  \/ SectionUnmount

SpecDetection == InitDetection /\ [][DetectionNext]_vars

\* The same hook under the scheduling the platform gives: a requested frame
\* eventually fires, time passes, and React eventually runs the effect at
\* mount and after a change of currentSection.
SpecDetectionLive ==
  /\ SpecDetection
  /\ WF_vars(\E f \in sectionFrames : SectionFrameCallback(f))
  /\ WF_vars(ThrottleElapses)
  /\ WF_vars(SectionEffect /\ (~effectRuns \/ closureSection # currentSection))

\* -------------------------------------------- claims on section detection
\* The rows of the viewport 0..viewportHeight-1 that a section's box covers.
Overlap(rect) ==
  Cardinality({n \in rect.top..(rect.bottom - 1) : 0 <= n /\ n < viewportHeight})
\* Four times the score of the section listed at position k.
Score4(k) ==
  LET rect == dom[sectionIds[k]]
  IN 4 * Overlap(rect) - Abs(rect.top + rect.bottom - viewportHeight)
RenderedAt == {k \in 1..Len(sectionIds) : sectionIds[k] \in DOMAIN dom}

\* Claim C15: among the listed ids that have an element,
\* detectCurrentSection returns one with the highest score
\* visibleHeight - 0.5 * |sectionMidpoint - viewportMidpoint|, and of several
\* ids with that score the one listed first.
C15_HighestScoreFirstWins ==
  (lastOp.op = "detectCurrentSection" /\ RenderedAt # {}) =>
     \E k \in RenderedAt :
        /\ fnResult = sectionIds[k]
        /\ \A j \in RenderedAt :
              /\ Score4(j) <= Score4(k)
              /\ j < k => Score4(j) < Score4(k)

\* Two sections tie for the highest score behind a lower-scoring first one,
\* and the earlier of the two is returned.
C15_Witness ==
  /\ lastOp.op = "detectCurrentSection"
  /\ RenderedAt = {1, 2, 3}
  /\ Score4(1) < Score4(2)
  /\ Score4(2) = Score4(3)
  /\ fnResult = sectionIds[2]

\* Claim C16: an id without an element never wins over an id that has one,
\* however low that one scores; if no id of a non-empty list has an element
\* the result is the first id of the list.
C16_MissingElementsSkipped ==
  (lastOp.op = "detectCurrentSection" /\ sectionIds # <<>>) =>
     IF RenderedAt # {} THEN fnResult \in DOMAIN dom
     ELSE fnResult = sectionIds[1]

\* The first id has no element and the only rendered one scores below zero.
C16_Witness ==
  /\ lastOp.op = "detectCurrentSection"
  /\ Len(sectionIds) = 3
  /\ RenderedAt = {2}
  /\ Score4(2) < 0
  /\ fnResult = sectionIds[2]

\* Claim C17: detectCurrentSection of the empty list is the empty section
\* id ''.
C17_EmptyListGivesEmptyId ==
  (lastOp.op = "detectCurrentSection" /\ sectionIds = <<>>) => fnResult = ""

C17_Witness ==
  /\ lastOp.op = "detectCurrentSection"
  /\ sectionIds = <<>>
  /\ DOMAIN dom = SectionNames
  /\ fnResult = ""

\* Claim C18: scrollToSection(id) with no element for id warns and makes no
\* scroll call; with an element it calls scrollIntoView on it exactly once,
\* with behavior 'smooth' and block 'start'.
C18_ScrollToSection ==
  lastOp.op = "scrollToSection" =>
     LET scrolls == {k \in 1..Len(effects) : effects[k].kind = "scrollIntoView"}
         warnings == {k \in 1..Len(effects) : effects[k].kind = "console.warn"}
     IN IF lastOp.id \in DOMAIN dom
        THEN /\ Cardinality(scrolls) = 1
             /\ \A k \in scrolls : /\ effects[k].target = lastOp.id
                                   /\ effects[k].behavior = "smooth"
                                   /\ effects[k].block = "start"
        ELSE /\ scrolls = {}
             /\ warnings # {}

\* A listed id whose element is missing was asked for: one warning, no scroll.
C18_Witness ==
  /\ lastOp.op = "scrollToSection"
  /\ lastOp.id \notin DOMAIN dom
  /\ \E k \in 1..Len(sectionIds) : sectionIds[k] = lastOp.id
  /\ Len(effects) = 1
  /\ effects[1].kind = "console.warn"

\* ------------------------------------------------- claims on ContactForm
NonBlank(s) == \E k \in 1..Len(s) : s[k] # " "
\* one '@' that is not the first character, no white space, and after the
\* '@' a '.' with at least one character on each side
WellFormedEmail(e) ==
  /\ \A k \in 1..Len(e) : e[k] # " "
  /\ Cardinality({k \in 1..Len(e) : e[k] = "@"}) = 1
  /\ LET at == CHOOSE k \in 1..Len(e) : e[k] = "@"
     IN /\ at > 1
        /\ \E j \in (at + 2)..(Len(e) - 1) : e[j] = "."
ValidData(data) ==
  /\ NonBlank(data.name)
  /\ NonBlank(data.email)
  /\ WellFormedEmail(data.email)
  /\ NonBlank(data.message)

\* Claim C20: a submit calls onSubmit only when name, email and message are
\* non-blank and the email is well-formed, once and with exactly the current
\* form data; a submit of data that fails validation calls nothing and
\* leaves the status as it was.
C20_SubmitOnlyValidData ==
  [][lastOp'.op = "handleSubmit" =>
       /\ effects' # <<>> =>
            /\ ValidData(formData)
            /\ effects' = <<[kind |-> "onSubmit", data |-> formData]>>
       /\ (ValidData(formData) /\ hasOnSubmit) => effects' # <<>>
       /\ ~ValidData(formData) =>
            /\ effects' = <<>>
            /\ formStatus' = formStatus]_vars

\* A valid form was submitted and onSubmit received exactly its data.
C20_Witness ==
  /\ lastOp.op = "handleSubmit"
  /\ Len(effects) = 1
  /\ effects[1].kind = "onSubmit"
  /\ effects[1].data = formData
  /\ formData.email = <<"a", "@", "a", ".", "a">>
  /\ formData.message = <<"a", " ", "a">>
  /\ formStatus = "submitting"
  /\ inFlight = 1

\* ------------------------------------------------------- claims on Navbar
\* Claim C21: once the effects of the last render have run, body scrolling is
\* locked (overflow 'hidden') exactly when the mobile menu is open, and after
\* Navbar has unmounted the lock is released.
C21_BodyScrollLock ==
  /\ (navMounted /\ navPhase = "idle") =>
        ((bodyOverflow = "hidden") <=> isMobileMenuOpen)
  /\ ~navMounted => bodyOverflow = ""

\* Navbar was unmounted with the menu open, and the lock is gone.
C21_Witness ==
  /\ lastOp.op = "Navbar unmount"
  /\ ~navMounted
  /\ isMobileMenuOpen
  /\ bodyOverflow = ""

\* ------------------------------------------- claims on controller disposal
\* Claim C22: setAnimationVisibility and a motion-preference change only pause
\* or resume: they dispose no controller and add or remove no registry entry;
\* a controller becomes disposed only in a step of unregisterAnimation or of
\* the provider's teardown.
C22_OnlyUnregisterDisposes ==
  [][/\ lastOp'.op \in {"setAnimationVisibility", "handleChange"} =>
          /\ \A call \in calls' : call[1] \in {"pause", "resume"}
          /\ DOMAIN timelines' = DOMAIN timelines
          /\ \A id \in DOMAIN timelines :
                timelines'[id].timeline = timelines[id].timeline
     /\ \A c \in Controllers :
          (ctl[c] # "killed" /\ ctl'[c] = "killed") =>
             lastOp'.op \in {"unregisterAnimation", "unmount"}]_vars

\* A playing timeline has just been hidden: it is paused, alive and still
\* registered.
C22_Witness ==
  /\ lastOp.op = "setAnimationVisibility"
  /\ ~lastOp.flag
  /\ lastOp.id \in Registered
  /\ calls = {<<"pause", TimelineOf(lastOp.id)>>}
  /\ ctl[TimelineOf(lastOp.id)] = "paused"

\* Claim C23: every controller is disposed at most once and receives no call
\* after it has been disposed: a step of a component's cleanup, of the
\* provider's teardown or of the motion listener calls methods only on
\* controllers that were alive before the step, and kill() on each at most
\* once.
C23_DisposedAtMostOnce ==
  [][/\ lastOp'.op = "component cleanup" =>
          \A n \in 1..Len(effects') :
             /\ ctl[effects'[n].target] # "killed"
             /\ \A m \in 1..(n - 1) :
                   ~(effects'[m].kind = "kill"
                     /\ effects'[m].target = effects'[n].target)
     /\ lastOp'.op \in {"unmount", "handleChange"} =>
          \A call \in calls' : ctl[call[2]] # "killed"]_vars

\* ------------------------------- claims on the section-detection effect
\* Claim C24: a cleanup of the section-detection effect cancels the pending
\* updateCurrentSection frame, also one re-scheduled by the throttle: no
\* requested frame belongs to a run that has been cleaned up, and after the
\* unmount no frame is left and nothing is set or notified.
C24_NoFrameSurvivesCleanup ==
  /\ \A f \in sectionFrames : ~f.stale
  /\ ~hookMounted => (sectionFrames = {} /\ effects = <<>>)

\* The hook was unmounted while a frame re-scheduled by the throttle was
\* pending, and the frame is gone.
C24_Witness ==
  /\ lastOp.op = "section unmount"
  /\ lastOp.flag
  /\ ~throttleOpen
  /\ sectionRafId # NoFrame
  /\ sectionFrames = {}

\* Claim C25: onSectionChange(id) is called only together with
\* setCurrentSection(id) and only with an id that differs from the current
\* section of the context, so that one change of section is notified once.
C25_NotifiesOnlyChanges ==
  [][\A n \in 1..Len(effects') :
        effects'[n].kind = "onSectionChange" =>
           /\ effects'[n].target # currentSection
           /\ \E m \in 1..Len(effects') :
                 effects'[m] = SectionCall("setCurrentSection", effects'[n].target)]_vars

\* Claim C26: once scroll and resize events have stopped, the current section
\* of the context becomes, and stays, detectCurrentSection(sectionIds) of the
\* final layout for as long as the hook is mounted.
C26_DetectionCatchesUp ==
  /\ [](detectedSection = detectCurrentSection(sectionIds))
  /\ <>[](hookMounted =>
            (effectRuns /\ currentSection = detectCurrentSection(sectionIds)))

\* All events have been delivered, the last detection was held back by the
\* throttle and re-scheduled, and the hook is still mounted.
C26_Witness ==
  /\ hookMounted
  /\ eventsLeft = 0
  /\ lastOp.op = "section frame"
  /\ sectionRafId # NoFrame
  /\ currentSection # detectCurrentSection(sectionIds)

\* ------------------------------------- claims on the submission of the form
\* Claim C27: the step in which the onSubmit promise settles takes the status
\* out of 'submitting': to 'success' with name, email and message reset to
\* empty when it resolves, to 'error' with the form data unchanged when it
\* rejects; the status is 'submitting' only while a promise is unsettled.
C27_StatusFollowsSettlement ==
  [][/\ lastOp'.op = "onSubmit resolves" =>
          /\ formStatus = "submitting"
          /\ formStatus' = "success"
          /\ \A f \in Fields : formData'[f] = <<>>
     /\ lastOp'.op = "onSubmit rejects" =>
          /\ formStatus = "submitting"
          /\ formStatus' = "error"
          /\ formData' = formData
          /\ ValidData(formData')
     /\ formStatus' = "submitting" => inFlight' > 0]_vars

\* The promise has just rejected: status 'error', the entered data still there.
C27_Witness ==
  /\ lastOp.op = "onSubmit rejects"
  /\ formStatus = "error"
  /\ inFlight = 0
  /\ formData.name = <<"a">>
  /\ formData.email = <<"a", "@", "a", ".", "a">>

\* Claim C30: at most one submission is in flight: onSubmit is called only
\* when no earlier onSubmit promise is unsettled, and the status is
\* 'submitting' exactly while one is.
C30_OneSubmissionInFlight ==
  /\ inFlight <= 1
  /\ (formStatus = "submitting") <=> (inFlight = 1)

\* A second submission is in flight after the first one has been rejected.
C30_Witness ==
  /\ lastOp.op = "handleSubmit"
  /\ inFlight = 1
  /\ formStatus = "submitting"
  /\ touched = Fields
  /\ formData.name = <<"a">>
  /\ formData.message = <<"a", " ", "a">>

\* --------------------------------------- claims on the effects of useParallax
\* Claim C28: while the layers array keeps its reference, a change of the
\* scroll fraction, the base range or the disabled flag is followed by one run
\* of the two layer effects and no further one: the render their state update
\* causes passes the same layers array, so the effects are not left to run
\* again; the same for ParallaxWrapper after its parent passed a new bounds
\* object.
C28_EffectsRunOncePerChange ==
  /\ pxRounds <= 1
  /\ lastOp.op = "useParallaxEffects" => (pxPhase = "idle" /\ pxRounds = 1)

\* ParallaxWrapper at rest after its parent passed a new bounds object: the
\* effects ran once and the position follows the new bounds.
C28_Witness ==
  /\ pxOwner = "ParallaxWrapper"
  /\ lastOp.op = "useParallaxEffects"
  /\ lastOp.id = "layers"
  /\ pxBoundsRef = 1
  /\ pxRounds = 1
  /\ pxPhase = "idle"
  /\ ~isDisabled
  /\ scrollProgress = One
  /\ pxLayers[WrapperLayerId].bounds = Bounds(<<1, 4>>, <<3, 4>>)
  /\ pxLayers[WrapperLayerId].speedMultiplier = <<1, 2>>
  /\ layerStates[WrapperLayerId].position = <<1, 2>>

\* Claim C29: right after the effects of useParallax have run with parallax not
\* disabled, the position stored for every configured layer is
\* calculateParallaxPosition(scrollProgress, speedMultiplier, baseRange,
\* bounds), baseRange being the baseScrollRange option when given and the
\* height of the viewport otherwise.
C29_PositionsFollowInputs ==
  (lastOp.op = "useParallaxEffects" /\ pxPhase = "idle" /\ ~isDisabled) =>
    LET baseRange == IF pxBaseScrollRange # NoRange THEN pxBaseScrollRange
                     ELSE viewportHeight
    IN \A id \in DOMAIN pxLayers :
         /\ id \in DOMAIN layerStates
         /\ layerStates[id].position =
              calculateParallaxPosition(scrollProgress,
                                        pxLayers[id].speedMultiplier,
                                        baseRange, pxLayers[id].bounds)

====
